---------------------------- MODULE Spec2Model ----------------------------
(***************************************************************************)
(* Model of the StartUp test-stand controller: the Hold debouncer and the  *)
(* CycleFSM engine (cycle_fsm.py), the startup and cooldown cyclograms     *)
(* (cyclogram_startup.py, and the earlier startup graph of cyclograms.py), *)
(* the ramp-profile evaluator (pump_profile.py)                            *)
(* and the control loop ControllerWorker (worker.py).                      *)
(*                                                                         *)
(* Units.  Time is counted in whole ticks of the clock; duty in 1/10000;   *)
(* rpm, volts and amperes as in the source.                                *)
(*                                                                         *)
(* Clock.  The code reads time.time() and only ever compares differences   *)
(* of timestamps (now - t0 >= hold_s, now >= deadline).  The model keeps   *)
(* the time origin sliding with the clock: the clock always reads Now, and *)
(* when d ticks pass every stored timestamp moves d into the past (Shift), *)
(* up to the largest duration it is compared with: older timestamps all    *)
(* compare alike.  A literal 0.0 timestamp of the code is "long ago", as   *)
(* it is against the epoch clock.                                          *)
(***************************************************************************)
EXTENDS Integers, Sequences, FiniteSets, TLC

(***************************************************************************)
(* Bounds of the model.  The durations of StartupConfig / CoolingConfig    *)
(* are overridable parameters; the model runs a short configuration.       *)
(***************************************************************************)
MaxDt == 2
starter_timeout_s == 4
starter_min_hold_s == 2
ignition_timeout_s == 4
ignition_hold_s == 2
valve_switch_s == 1
fuelramp_timeout_s == 5
fuelramp_finish_hold_s == 2
duration_s == 3
\* StartupCfg of cyclograms.py, likewise shortened.
cfg_starter_ready_hold_s == 1
cfg_starter_timeout_s == 3
ignition_min_time_s == 1
cfg_ignition_timeout_s == 3
ramp_timeout_s == 4
running_hold_s == 1
drop_hold_s == 1

(***************************************************************************)
(* Program constants (values as in the source, in the model's units).      *)
(***************************************************************************)
NoTime == -1
starter_duty_start == 500
starter_min_rpm == 500
valve_v1 == 18
valve_v2 == 24
valve_i == 5
ignition_min_starter_rpm == 2000
fuelramp_finish_starter_rpm == 20000
running_starter_duty == 750
DutyOne == 10000
starter_ready_rpm == 700
running_starter_rpm == 3000
running_pump_rpm == 5000
min_starter_rpm_in_run == 1500

starter_duty_profile_ign == << <<0, 500>>, <<2, 550>>, <<4, 600>>, <<6, 650>> >>

None == "None"

Max(a, b) == IF a >= b THEN a ELSE b
Min(a, b) == IF a <= b THEN a ELSE b

SetMax(S) == CHOOSE x \in S : \A y \in S : y <= x

\* The profiles the run-profile workbooks may hold (PumpProfile: t, rpm).
RunProfiles ==
    { [t |-> <<0, 2>>, rpm |-> <<1000, 3000>>],
      [t |-> <<0>>, rpm |-> <<1500>>] }

end_time(profile) ==
    IF Len(profile.t) > 0 THEN profile.t[Len(profile.t)] ELSE 0

\* The clock reading, and the age at which timestamps saturate.
Horizon ==
    SetMax({starter_timeout_s, starter_min_hold_s, ignition_timeout_s,
            ignition_hold_s, valve_switch_s, fuelramp_timeout_s,
            fuelramp_finish_hold_s, duration_s,
            cfg_starter_ready_hold_s, cfg_starter_timeout_s, ignition_min_time_s,
            cfg_ignition_timeout_s, ramp_timeout_s, running_hold_s, drop_hold_s,
            starter_duty_profile_ign[Len(starter_duty_profile_ign)][1]}
           \cup {end_time(p) : p \in RunProfiles}) + 1

Now == Horizon

\* A timestamp d ticks later.  An age (now - ts) is compared with durations
\* of at most cap, so ages of cap and more are one; NoTime is no timestamp.
Shift(ts, d, cap) ==
    IF ts = NoTime THEN NoTime ELSE Now - Min(Now - ts + d, cap)

\* A deadline (now >= ts) d ticks later; a deadline that has passed is 0.
ShiftDeadline(ts, d) == IF ts - d <= Now THEN 0 ELSE ts - d

(***************************************************************************)
(* pump_profile.py / cyclogram_startup.py: linear interpolation.           *)
(***************************************************************************)
RECURSIVE interp_scan(_, _, _, _)
interp_scan(ts, ys, x, i) ==
    IF i > Len(ts) THEN ys[Len(ys)]
    ELSE IF x <= ts[i]
         THEN LET t0 == ts[i - 1]
                  t1 == ts[i]
                  y0 == ys[i - 1]
                  y1 == ys[i]
              IN  IF t1 <= t0 THEN y1
                  ELSE y0 + ((x - t0) * (y1 - y0)) \div (t1 - t0)
         ELSE interp_scan(ts, ys, x, i + 1)

\* A faulty evaluator: no interpolation, the first value until the last
\* sample time.
interp_profile_no_ramp(profile, time_s) ==
    IF Len(profile.t) = 0 THEN 0
    ELSE IF time_s >= profile.t[Len(profile.t)] THEN profile.rpm[Len(profile.rpm)]
    ELSE profile.rpm[1]

interp_profile(profile, time_s) ==
    IF Len(profile.t) = 0 THEN 0
    ELSE IF time_s <= profile.t[1] THEN profile.rpm[1]
    ELSE IF time_s >= profile.t[Len(profile.t)] THEN profile.rpm[Len(profile.rpm)]
    ELSE interp_scan(profile.t, profile.rpm, time_s, 2)

interp_time_value(points, t) ==
    IF Len(points) = 0 THEN 0
    ELSE IF t <= points[1][1] THEN points[1][2]
    ELSE IF t >= points[Len(points)][1] THEN points[Len(points)][2]
    ELSE interp_scan([k \in 1..Len(points) |-> points[k][1]],
                     [k \in 1..Len(points) |-> points[k][2]], t, 2)

(***************************************************************************)
(* cycle_fsm.py: CycleTargets and the Hold debouncer.                      *)
(***************************************************************************)
EmptyMeta == <<>>

MetaGet(meta, k, dflt) == IF k \in DOMAIN meta THEN meta[k] ELSE dflt

MetaSet(meta, k, v) == (k :> v) @@ meta

CycleTargets ==
    [pump    |-> [mode |-> "rpm", value |-> 0],
     starter |-> [mode |-> "duty", value |-> 0],
     psu     |-> [v |-> 0, i |-> 0, out |-> FALSE],
     meta    |-> EmptyMeta]

\* A faulty Hold: a false evaluation does not clear the stored time, so
\* true-time adds up across gaps.
HoldCall_cumulative(t0, hold_s, p, inp) ==
    IF p
    THEN LET t == IF t0 = NoTime THEN inp.now ELSE t0
         IN  [ret |-> (inp.now - t) >= hold_s, t0 |-> t]
    ELSE [ret |-> FALSE, t0 |-> t0]

\* Hold.__call__ on a Hold whose stored first-true time is t0; p is the value
\* of the wrapped predicate on inp.  Gives the result and the new _t0.
HoldCall(t0, hold_s, p, inp) ==
    IF p
    THEN LET t == IF t0 = NoTime THEN inp.now ELSE t0
         IN  [ret |-> (inp.now - t) >= hold_s, t0 |-> t]
    ELSE [ret |-> FALSE, t0 |-> NoTime]


(***************************************************************************)
(* cyclogram_startup.py: the helpers that write CycleTargets.              *)
(***************************************************************************)
set_pump_rpm(out, rpm) == [out EXCEPT !.pump = [mode |-> "rpm", value |-> rpm]]

set_starter_duty(out, duty) ==
    [out EXCEPT !.starter = [mode |-> "duty", value |-> duty]]

set_valve(out, v, i, on) == [out EXCEPT !.psu = [v |-> v, i |-> i, out |-> on]]

\* A faulty stop_all: the valve supply is left as it is.
stop_all_keep_valve(out) == set_starter_duty(set_pump_rpm(out, 0), 0)

stop_all(out) == set_valve(set_starter_duty(set_pump_rpm(out, 0), 0), 0, 0, FALSE)

(***************************************************************************)
(* cyclograms.py: the earlier startup graph (kind "cyclograms").  Its      *)
(* callbacks read cfg.starter_target_rpm, cfg.valve_v and cfg.valve_i,     *)
(* which StartupCfg does not define: they raise AttributeError at that     *)
(* read, keeping what they wrote before it.                                *)
(***************************************************************************)
cyclograms_transitions(s) ==
    CASE s = "Starter" ->
           << [cond |-> "cfg_starter_ready", next_state |-> "Ignition", reason |-> None] >>
      [] s = "Ignition" ->
           << [cond |-> "ignition_min_time", next_state |-> "FuelRamp", reason |-> None] >>
      [] s = "FuelRamp" ->
           << [cond |-> "running_ready", next_state |-> "Running", reason |-> None] >>
      [] s = "Running" ->
           << [cond |-> "drop_fault", next_state |-> "Fault", reason |-> None] >>
      [] OTHER -> << >>

cyclograms_timeout_s(s) ==
    CASE s = "Starter" -> cfg_starter_timeout_s
      [] s = "Ignition" -> cfg_ignition_timeout_s
      [] s = "FuelRamp" -> ramp_timeout_s
      [] OTHER -> NoTime

\* No State of cyclograms.build_startup_fsm passes terminal=True.
cyclograms_terminal(s) == FALSE

stop_outputs(inp, out) ==
    [out EXCEPT !.pump = [mode |-> "duty", value |-> 0],
                !.starter = [mode |-> "duty", value |-> 0],
                !.psu = [v |-> 0, i |-> 0, out |-> FALSE]]

fault_outputs(inp, out) == stop_outputs(inp, out)

\* starter_enter up to the read of cfg.starter_target_rpm.
cyclograms_starter_enter(inp, out) ==
    [out EXCEPT !.pump = [mode |-> "duty", value |-> 0],
                !.psu = [v |-> 0, i |-> 0, out |-> FALSE]]

\* ignition_enter, ramp_tick and running_tick write nothing before the read
\* of cfg.valve_v.
cyclograms_on_enter(s, inp, out) ==
    CASE s = "Stop" -> stop_outputs(inp, out)
      [] s = "Fault" -> fault_outputs(inp, out)
      [] s = "Starter" -> cyclograms_starter_enter(inp, out)
      [] OTHER -> out

on_enter_raises(f, s) == f.kind = "cyclograms" /\ s \in {"Starter", "Ignition"}

on_tick_raises(f, s) == f.kind = "cyclograms" /\ s \in {"FuelRamp", "Running"}

cfg_starter_ready(f, inp) ==
    LET h == HoldCall(f.holds.cfg_starter_ready, cfg_starter_ready_hold_s,
                      inp.starter_rpm >= starter_ready_rpm, inp)
    IN  [ret |-> h.ret, holds |-> [f.holds EXCEPT !.cfg_starter_ready = h.t0]]

ignition_min_time(f, inp) ==
    [ret |-> inp.state_t >= ignition_min_time_s, holds |-> f.holds]

\* 0.98 * x  as  49 * x / 50.
running_ready(f, inp) ==
    LET h == HoldCall(f.holds.running_ready, running_hold_s,
                      /\ 50 * inp.starter_rpm >= 49 * running_starter_rpm
                      /\ 50 * inp.pump_rpm >= 49 * running_pump_rpm, inp)
    IN  [ret |-> h.ret, holds |-> [f.holds EXCEPT !.running_ready = h.t0]]

drop_fault(f, inp) ==
    LET h == HoldCall(f.holds.drop_fault, drop_hold_s,
                      inp.starter_rpm < min_starter_rpm_in_run, inp)
    IN  [ret |-> h.ret, holds |-> [f.holds EXCEPT !.drop_fault = h.t0]]

(***************************************************************************)
(* A graph for the engine alone (kind "chain").  CycleFSM takes any states *)
(* dict; the graphs above give every state at most one transition and     *)
(* time out into a state without transitions, so this one has what they    *)
(* lack:                                                                   *)
(*   First   transitions [first_high -> Second, first_held -> Third],      *)
(*           timeout chain_timeout_s -> Second; on_enter: pump rpm 100;    *)
(*   Second  transitions [second_late -> Third]; on_enter: pump rpm 200;   *)
(*   Third   terminal; on_enter: everything off.                           *)
(* first_high is a lambda (starter_rpm >= chain_rpm_hi), first_held a Hold *)
(* (starter_rpm >= chain_rpm_lo for chain_hold_s), second_late a lambda    *)
(* (state_t >= chain_dwell_s and starter_rpm >= chain_rpm_lo).             *)
(***************************************************************************)
chain_timeout_s == starter_timeout_s
chain_hold_s == starter_min_hold_s
chain_dwell_s == valve_switch_s
chain_rpm_lo == starter_min_rpm
chain_rpm_hi == ignition_min_starter_rpm

chain_transitions(s) ==
    CASE s = "First" ->
           << [cond |-> "first_high", next_state |-> "Second", reason |-> "high"],
              [cond |-> "first_held", next_state |-> "Third", reason |-> "held"] >>
      [] s = "Second" ->
           << [cond |-> "second_late", next_state |-> "Third", reason |-> "late"] >>
      [] OTHER -> << >>

chain_on_enter(s, out) ==
    CASE s = "First" -> set_pump_rpm(out, 100)
      [] s = "Second" -> set_pump_rpm(out, 200)
      [] s = "Third" -> stop_all(out)

first_high(f, inp) == [ret |-> inp.starter_rpm >= chain_rpm_hi, holds |-> f.holds]

first_held(f, inp) ==
    LET h == HoldCall(f.holds.first_held, chain_hold_s,
                      inp.starter_rpm >= chain_rpm_lo, inp)
    IN  [ret |-> h.ret, holds |-> [f.holds EXCEPT !.first_held = h.t0]]

second_late(f, inp) ==
    [ret |-> inp.state_t >= chain_dwell_s /\ inp.starter_rpm >= chain_rpm_lo,
     holds |-> f.holds]

(***************************************************************************)
(* A CycleFSM object f: kind ("startup" | "cyclograms" | "cooling") with   *)
(* what the builder captured (profile, duty), the engine's fields, the _t0 *)
(* of the Hold objects the builders create, and the exception the last     *)
(* call ended with (raised).                                               *)
(***************************************************************************)
initial(f) ==
    CASE f.kind = "cooling" -> "Cooling"
      [] f.kind = "chain" -> "First"
      [] OTHER -> "Starter"

stop_state(f) == IF f.kind = "chain" THEN "Third" ELSE "Stop"

StateNames(f) ==
    IF f.kind \in {"startup", "cyclograms"}
    THEN {"Stop", "Fault", "Starter", "Ignition", "FuelRamp", "Running"}
    ELSE IF f.kind = "chain" THEN {"First", "Second", "Third"}
    ELSE {"Cooling", "Stop"}

\* A faulty table: Starter leads straight to FuelRamp.
transitions_skip_ignition(f, s) ==
    IF f.kind = "startup"
    THEN CASE s = "Starter" ->
                << [cond |-> "starter_ready", next_state |-> "FuelRamp",
                    reason |-> "OK: Starter reached rpm"] >>
           [] s = "Ignition" ->
                << [cond |-> "ignition_ready", next_state |-> "FuelRamp",
                    reason |-> "OK: Ignition condition reached"] >>
           [] s = "FuelRamp" ->
                << [cond |-> "go_running", next_state |-> "Running",
                    reason |-> "OK: FuelRamp done"] >>
           [] OTHER -> << >>
    ELSE CASE s = "Cooling" ->
                << [cond |-> "cooling_done", next_state |-> "Stop",
                    reason |-> "Cooling done"] >>
           [] OTHER -> << >>

\* State.transitions: the guard (by name), the target and the reason.
transitions(f, s) ==
    IF f.kind = "startup"
    THEN CASE s = "Starter" ->
                << [cond |-> "starter_ready", next_state |-> "Ignition",
                    reason |-> "OK: Starter reached rpm"] >>
           [] s = "Ignition" ->
                << [cond |-> "ignition_ready", next_state |-> "FuelRamp",
                    reason |-> "OK: Ignition condition reached"] >>
           [] s = "FuelRamp" ->
                << [cond |-> "go_running", next_state |-> "Running",
                    reason |-> "OK: FuelRamp done"] >>
           [] OTHER -> << >>
    ELSE IF f.kind = "cyclograms" THEN cyclograms_transitions(s)
    ELSE IF f.kind = "chain" THEN chain_transitions(s)
    ELSE CASE s = "Cooling" ->
                << [cond |-> "cooling_done", next_state |-> "Stop",
                    reason |-> "Cooling done"] >>
           [] OTHER -> << >>

\* The startup graph with no timeout configured on FuelRamp.
timeout_s_no_fuelramp(f, s) ==
    IF f.kind = "startup"
    THEN CASE s = "Starter" -> starter_timeout_s
           [] s = "Ignition" -> ignition_timeout_s
           [] OTHER -> NoTime
    ELSE IF f.kind = "cyclograms" THEN cyclograms_timeout_s(s)
    ELSE IF f.kind = "chain" /\ s = "First" THEN chain_timeout_s
    ELSE NoTime

\* State.timeout_s (NoTime: none configured), on_timeout, timeout_reason.
timeout_s(f, s) ==
    IF f.kind = "startup"
    THEN CASE s = "Starter" -> starter_timeout_s
           [] s = "Ignition" -> ignition_timeout_s
           [] s = "FuelRamp" -> fuelramp_timeout_s
           [] OTHER -> NoTime
    ELSE IF f.kind = "cyclograms" THEN cyclograms_timeout_s(s)
    ELSE IF f.kind = "chain" /\ s = "First" THEN chain_timeout_s
    ELSE NoTime

on_timeout(f, s) ==
    IF f.kind \in {"startup", "cyclograms"} /\ s \in {"Starter", "Ignition", "FuelRamp"}
    THEN "Fault"
    ELSE IF f.kind = "chain" /\ s = "First" THEN "Second"
    ELSE None

timeout_reason(f, s) ==
    IF f.kind = "startup"
    THEN CASE s = "Starter" ->
                "Stop: Starter did not reach " \o ToString(starter_min_rpm)
                \o " rpm in " \o ToString(starter_timeout_s) \o "s"
           [] s = "Ignition" ->
                "Stop: Ignition timeout " \o ToString(ignition_timeout_s) \o "s"
           [] s = "FuelRamp" ->
                "Stop: FuelRamp timeout " \o ToString(fuelramp_timeout_s) \o "s"
           [] OTHER -> None
    ELSE IF f.kind = "chain" /\ s = "First" THEN "timeout"
    ELSE None

terminal(f, s) ==
    IF f.kind = "startup" THEN s \in {"Stop", "Fault"}
    ELSE IF f.kind = "cyclograms" THEN cyclograms_terminal(s)
    ELSE IF f.kind = "chain" THEN s = "Third"
    ELSE s = "Stop"

\* A faulty Starter guard: the threshold alone, without the hold.
starter_ready_no_hold(f, inp) ==
    [ret |-> inp.starter_rpm >= starter_min_rpm, holds |-> f.holds]

\* The guards.  Each gives the guard's value on inp and the Holds afterwards.
starter_ready(f, inp) ==
    LET h == HoldCall(f.holds.starter_ready, starter_min_hold_s,
                      inp.starter_rpm >= starter_min_rpm, inp)
    IN  [ret |-> h.ret, holds |-> [f.holds EXCEPT !.starter_ready = h.t0]]

ignition_ready(f, inp) ==
    LET h == HoldCall(f.holds.ignition_ready, ignition_hold_s,
                      inp.starter_rpm >= ignition_min_starter_rpm, inp)
    IN  [ret |-> h.ret, holds |-> [f.holds EXCEPT !.ignition_ready = h.t0]]

ramp_done_time(f, inp) == inp.state_t >= end_time(f.profile)

ramp_ready(f, inp) ==
    LET h == HoldCall(f.holds.ramp_ready, fuelramp_finish_hold_s,
                      inp.starter_rpm >= fuelramp_finish_starter_rpm, inp)
    IN  [ret |-> h.ret, holds |-> [f.holds EXCEPT !.ramp_ready = h.t0]]

\* A faulty guard: the end of the pump profile is not waited for.
go_running_no_ramp_end(f, inp) == ramp_ready(f, inp)

\* "ramp_done_time(i) and ramp_ready(i)": the Hold is called only when the
\* first conjunct is true.
go_running(f, inp) ==
    IF ramp_done_time(f, inp) THEN ramp_ready(f, inp)
    ELSE [ret |-> FALSE, holds |-> f.holds]

\* A faulty guard: Cooling is left only after the duration has passed.
cooling_done_late(f, inp) == [ret |-> inp.state_t > duration_s, holds |-> f.holds]

cooling_done(f, inp) == [ret |-> inp.state_t >= duration_s, holds |-> f.holds]

cond_call(f, cond, inp) ==
    CASE cond = "starter_ready" -> starter_ready(f, inp)
      [] cond = "ignition_ready" -> ignition_ready(f, inp)
      [] cond = "go_running" -> go_running(f, inp)
      [] cond = "cooling_done" -> cooling_done(f, inp)
      [] cond = "cfg_starter_ready" -> cfg_starter_ready(f, inp)
      [] cond = "ignition_min_time" -> ignition_min_time(f, inp)
      [] cond = "running_ready" -> running_ready(f, inp)
      [] cond = "drop_fault" -> drop_fault(f, inp)
      [] cond = "first_high" -> first_high(f, inp)
      [] cond = "first_held" -> first_held(f, inp)
      [] cond = "second_late" -> second_late(f, inp)

\* hasattr(tr.cond, "reset") and tr.cond.reset(): only a transition whose
\* cond is itself a Hold object has a reset; go_running and the cooling
\* lambda are plain functions.
cond_reset(holds, cond) ==
    CASE cond = "starter_ready" -> [holds EXCEPT !.starter_ready = NoTime]
      [] cond = "ignition_ready" -> [holds EXCEPT !.ignition_ready = NoTime]
      [] cond = "cfg_starter_ready" -> [holds EXCEPT !.cfg_starter_ready = NoTime]
      [] cond = "running_ready" -> [holds EXCEPT !.running_ready = NoTime]
      [] cond = "drop_fault" -> [holds EXCEPT !.drop_fault = NoTime]
      [] cond = "first_held" -> [holds EXCEPT !.first_held = NoTime]
      [] OTHER -> holds

\* The on_enter / on_tick callbacks; each gives the targets afterwards.
stop_enter(f, inp, out) == stop_all(out)

\* A faulty Fault entry: the reason is not copied to meta["fault"].
fault_enter_no_reason(f, inp, out) == stop_all(out)

fault_enter(f, inp, out) ==
    LET o == stop_all(out)
    IN  [o EXCEPT !.meta =
            MetaSet(o.meta, "fault", MetaGet(o.meta, "transition_reason", "Fault"))]

starter_enter(f, inp, out) ==
    set_valve(set_pump_rpm(set_starter_duty(out, starter_duty_start), 0), 0, 0, FALSE)

ignition_enter(f, inp, out) == set_valve(out, valve_v1, valve_i, TRUE)

ignition_tick(f, inp, out) ==
    LET d == interp_time_value(starter_duty_profile_ign, inp.state_t)
        v == IF inp.state_t < valve_switch_s THEN valve_v1 ELSE valve_v2
    IN  set_pump_rpm(set_valve(set_starter_duty(out, d), v, valve_i, TRUE),
                     interp_profile(f.profile, inp.state_t))

fuelramp_enter(f, inp, out) == out

fuelramp_tick(f, inp, out) ==
    LET last_d == starter_duty_profile_ign[Len(starter_duty_profile_ign)][2]
    IN  set_pump_rpm(set_starter_duty(set_valve(out, valve_v2, valve_i, TRUE), last_d),
                     interp_profile(f.profile, inp.state_t))

running_enter(f, inp, out) ==
    LET o == set_starter_duty(set_valve(out, valve_v2, valve_i, TRUE),
                              running_starter_duty)
    IN  [o EXCEPT !.meta = MetaSet(o.meta, "running_manual_pump", TRUE)]

running_tick(f, inp, out) ==
    set_starter_duty(set_valve(out, valve_v2, valve_i, TRUE), running_starter_duty)

cooling_enter(f, inp, out) ==
    set_valve(set_pump_rpm(set_starter_duty(out, f.duty), 0), 0, 0, FALSE)

on_enter(f, s, inp, out) ==
    IF f.kind = "startup"
    THEN CASE s = "Stop" -> stop_enter(f, inp, out)
           [] s = "Fault" -> fault_enter(f, inp, out)
           [] s = "Starter" -> starter_enter(f, inp, out)
           [] s = "Ignition" -> ignition_enter(f, inp, out)
           [] s = "FuelRamp" -> fuelramp_enter(f, inp, out)
           [] s = "Running" -> running_enter(f, inp, out)
    ELSE IF f.kind = "cyclograms" THEN cyclograms_on_enter(s, inp, out)
    ELSE IF f.kind = "chain" THEN chain_on_enter(s, out)
    ELSE CASE s = "Cooling" -> cooling_enter(f, inp, out)
           [] s = "Stop" -> stop_enter(f, inp, out)

on_tick(f, s, inp, out) ==
    IF f.kind = "startup"
    THEN CASE s = "Ignition" -> ignition_tick(f, inp, out)
           [] s = "FuelRamp" -> fuelramp_tick(f, inp, out)
           [] s = "Running" -> running_tick(f, inp, out)
           [] OTHER -> out
    ELSE out

(***************************************************************************)
(* cycle_fsm.py: the engine.                                               *)
(***************************************************************************)
state_time(f, now) == now - f.enter

RECURSIVE reset_holds(_, _, _)
reset_holds(holds, trs, k) ==
    IF k > Len(trs) THEN holds
    ELSE reset_holds(cond_reset(holds, trs[k].cond), trs, k + 1)

\* The steps of _switch after the four assignments: the reset of the Holds
\* of the entered state's transitions, the reason put in meta, on_enter.
switch_reset(f) ==
    [f EXCEPT !.holds = reset_holds(@, transitions(f, f.current), 1)]

switch_reason(f, reason) ==
    IF reason # None /\ reason # ""
    THEN [f EXCEPT !.targets.meta = MetaSet(@, "transition_reason", reason)]
    ELSE f

switch_on_enter(f, inp) ==
    [f EXCEPT !.targets = on_enter(f, f.current, inp, @),
              !.raised = IF on_enter_raises(f, f.current) THEN "AttributeError" ELSE @]

_switch(f, inp, next_state, reason) ==
    switch_on_enter(
        switch_reason(
            switch_reset([f EXCEPT !.last_state = f.current,
                                   !.current = next_state,
                                   !.enter = inp.now,
                                   !.last_transition_reason = reason]),
            reason),
        inp)

start(f, inp) ==
    _switch([f EXCEPT !.running = TRUE, !.raised = None], inp, initial(f), None)

stop(f, inp, reason) ==
    _switch([f EXCEPT !.running = FALSE, !.raised = None], inp, stop_state(f), reason)

\* A faulty scan without the break: the guards after a taken one are still
\* evaluated, and may switch again.
RECURSIVE scan_transitions_no_break(_, _, _, _)
scan_transitions_no_break(f, trs, inp, k) ==
    IF k > Len(trs) THEN f
    ELSE LET c == cond_call(f, trs[k].cond, inp)
             g == [f EXCEPT !.holds = c.holds]
         IN  scan_transitions_no_break(
                 IF c.ret THEN _switch(g, inp, trs[k].next_state, trs[k].reason) ELSE g,
                 trs, inp, k + 1)

\* "for tr in st.transitions: if tr.cond(inp): _switch(...); break"
RECURSIVE scan_transitions(_, _, _, _)
scan_transitions(f, trs, inp, k) ==
    IF k > Len(trs) THEN f
    ELSE LET c == cond_call(f, trs[k].cond, inp)
             g == [f EXCEPT !.holds = c.holds]
         IN  IF c.ret THEN _switch(g, inp, trs[k].next_state, trs[k].reason)
             ELSE scan_transitions(g, trs, inp, k + 1)

\* A faulty timeout step: fires only once state_t has passed the timeout.
tick_timeout_strict(f, inp) ==
    LET st == f.current
    IN  IF timeout_s(f, st) # NoTime /\ on_timeout(f, st) # None
           /\ inp.state_t > timeout_s(f, st)
        THEN _switch(f, inp, on_timeout(f, st), timeout_reason(f, st))
        ELSE f

\* The timeout step of tick.
tick_timeout(f, inp) ==
    LET st == f.current
    IN  IF timeout_s(f, st) # NoTime /\ on_timeout(f, st) # None
           /\ inp.state_t >= timeout_s(f, st)
        THEN _switch(f, inp, on_timeout(f, st), timeout_reason(f, st))
        ELSE f

\* A faulty tick: the guards are scanned before the timeout is looked at.
tick_transitions_first(f, inp) ==
    LET f0 == [f EXCEPT !.targets.meta = EmptyMeta,
                        !.last_transition_reason = None, !.raised = None]
        f1 == [f0 EXCEPT !.targets = on_tick(f0, f0.current, inp, f0.targets)]
        f2 == scan_transitions(f1, transitions(f1, f1.current), inp, 1)
        f3 == IF f2.current = f1.current THEN tick_timeout(f2, inp) ELSE f2
    IN  IF terminal(f3, f3.current) THEN [f3 EXCEPT !.running = FALSE] ELSE f3

\* A faulty tick: after a timeout the transitions scanned are still those of
\* the state that timed out.
tick_no_refetch(f, inp) ==
    LET f0 == [f EXCEPT !.targets.meta = EmptyMeta,
                        !.last_transition_reason = None, !.raised = None]
        f1 == [f0 EXCEPT !.targets = on_tick(f0, f0.current, inp, f0.targets)]
        f2 == tick_timeout(f1, inp)
        f3 == scan_transitions(f2, transitions(f1, f1.current), inp, 1)
    IN  IF terminal(f3, f3.current) THEN [f3 EXCEPT !.running = FALSE] ELSE f3

\* The steps of tick; an exception of a callback leaves tick at that point.
tick_clear(f) ==
    [f EXCEPT !.targets.meta = EmptyMeta, !.last_transition_reason = None,
              !.raised = None]

tick_on_tick(f, inp) ==
    IF on_tick_raises(f, f.current) THEN [f EXCEPT !.raised = "AttributeError"]
    ELSE [f EXCEPT !.targets = on_tick(f, f.current, inp, @)]

tick_transitions(f, inp) ==
    IF f.raised # None THEN f
    ELSE scan_transitions(f, transitions(f, f.current), inp, 1)

tick_terminal(f) ==
    IF f.raised = None /\ terminal(f, f.current)
    THEN [f EXCEPT !.running = FALSE] ELSE f

tick_after_on_tick(f, inp) ==
    IF f.raised # None THEN f
    ELSE tick_terminal(tick_transitions(tick_timeout(f, inp), inp))

tick(f, inp) == tick_after_on_tick(tick_on_tick(tick_clear(f), inp), inp)

\* CycleFSM.__init__ as called by the two builders.
NewHolds ==
    [starter_ready |-> NoTime, ignition_ready |-> NoTime, ramp_ready |-> NoTime,
     cfg_starter_ready |-> NoTime, running_ready |-> NoTime, drop_fault |-> NoTime,
     first_held |-> NoTime]

CycleFSM(kind, profile, duty) ==
    [kind |-> kind, profile |-> profile, duty |-> duty,
     running |-> FALSE, current |-> initial([kind |-> kind]),
     enter |-> 0, targets |-> CycleTargets, holds |-> NewHolds,
     last_state |-> None, last_transition_reason |-> None, raised |-> None]

NoProfile == [t |-> << >>, rpm |-> << >>]

build_startup_fsm(profile) == CycleFSM("startup", profile, 0)

build_cooling_fsm(duty) == CycleFSM("cooling", NoProfile, Max(0, Min(DutyOne, duty)))

\* cyclograms.build_startup_fsm() with the default StartupCfg.
cyclograms_build_startup_fsm == CycleFSM("cyclograms", NoProfile, 0)

(***************************************************************************)
(* worker.py: ControllerWorker.  self holds the worker's fields; three     *)
(* more fields record the handler that ran last and what it emitted:       *)
(*   slot   the name of that handler;                                      *)
(*   error  the strings given to the error signal, in order;               *)
(*   raised the exception that left the handler uncaught, or None;         *)
(*   sent   the commands written to the pump, starter and PSU links.       *)
(*   requested  the actuators whose link got a request_values;             *)
(*   csv    what the tick did with the CSV logger: "none", "row" (a row    *)
(*          appended) or "failed" (the append raised).                     *)
(* logger_open stands for the CSVLogger holding an open file (path and w   *)
(* set).                                                                   *)
(* last_psu is the set of keys of the dict _last_psu: empty, or the keys of *)
(* a reading.  The sample/status signals, the stage label, the session     *)
(* clock _t0 and the 5 Hz sample signal are outputs no guard reads; they   *)
(* are not part of this state.  Whether the 2 Hz PSU poll is due in a tick *)
(* is an input of the tick (_psu_next_read is not kept); so is a failure   *)
(* of the 1 Hz flush of the CSV file, which the tick cannot observe        *)
(* (_next_flush_t is not kept).                                            *)
(***************************************************************************)
VARIABLES self, ncmd, machine, hold, probe, beat

NoFsm == [kind |-> "none"]

NoProbe == [call |-> "none"]

NoCmd == [op |-> "none", value |-> 0]

NoSent == [pump |-> NoCmd, starter |-> NoCmd, psu |-> << >>]

\* The values the environment supplies.
RpmLevels == {0, starter_min_rpm, ignition_min_starter_rpm, fuelramp_finish_starter_rpm}

PumpRpmReading == 1000

ManualPumpRpm == {1800}

ManualDuty == {3000, 12000}

ManualStarterRpm == {3000}

ManualVI == {[v |-> 12, i |-> 3]}

MaxFaults == 1

MaxCommands == 3

PsuCmdSpacing == 2

\* 1 / log_hz, in the unit of PsuCmdSpacing.
LogSpacing == 2

\* The session time (now - _t0) beyond which session times are one.
MaxSession == 1

\* A clamp with the upper limit only.
_clamp01_upper(x) == Min(DutyOne, x)

_clamp01(x) == Max(0, Min(DutyOne, x))

Bit(b) == IF b THEN 1 ELSE 0

emit_error(w, msg) == [w EXCEPT !.error = Append(w.error, msg)]

\* The start of every slot: nothing emitted or written yet.
begin(w, name) ==
    [w EXCEPT !.slot = name, !.error = << >>, !.sent = NoSent, !.raised = None,
              !.csv = "none", !.requested = {}]

\* An exception no handler of the slot catches: the slot ends there.
raise(w, exc) == [w EXCEPT !.raised = exc]

\* Faulty disconnect: the last reading of the pump is kept.
_disconnect_pump_keep(w) == [w EXCEPT !.pump_conn = FALSE]

_disconnect_pump(w) == [w EXCEPT !.pump_conn = FALSE, !.last_pump_rpm = 0]

_disconnect_starter(w) == [w EXCEPT !.starter_conn = FALSE, !.last_starter_rpm = 0]

_disconnect_psu(w) == [w EXCEPT !.psu_conn = FALSE, !.last_psu = {}]

_set_psu_target(w, v, i, out) ==
    IF w.psu_target.v = v /\ w.psu_target.i = i /\ w.psu_target.out = out
    THEN w
    ELSE [w EXCEPT !.psu_target = [v |-> v, i |-> i, out |-> out],
                   !.psu_dirty = TRUE,
                   !.psu_next_cmd = 0]

\* Faulty stop of the playback: the pump target is zeroed with it.
_stop_pump_profile_internal_zero(w) ==
    IF ~w.pump_prof_active THEN w
    ELSE [w EXCEPT !.pump_prof_active = FALSE, !.pump_prof_t0 = 0,
                   !.pump_target = [mode |-> "rpm", value |-> 0]]

_stop_pump_profile_internal(w) ==
    IF ~w.pump_prof_active THEN w
    ELSE [w EXCEPT !.pump_prof_active = FALSE, !.pump_prof_t0 = 0]

\* The zero commands of _force_all_off, in one try block: the first write
\* that raises (fail) ends the block.
force_off_writes(w, fail) ==
    LET p == IF w.pump_conn /\ fail # "pump"
             THEN [op |-> "set_rpm_mech", value |-> 0] ELSE NoCmd
        pOk == ~(w.pump_conn /\ fail = "pump")
        s == IF pOk /\ w.starter_conn /\ fail # "starter"
             THEN [op |-> "set_duty", value |-> 0] ELSE NoCmd
        sOk == pOk /\ ~(w.starter_conn /\ fail = "starter")
        u == IF sOk /\ w.psu_conn /\ fail # "psu"
             THEN << [op |-> "output", v |-> 0, i |-> 0, out |-> FALSE] >> ELSE << >>
    IN  [pump |-> p, starter |-> s, psu |-> u]

\* A faulty _force_all_off: the PSU target is left as it is.
_force_all_off_keep_psu(w, fail) ==
    LET w1 == [w EXCEPT !.pump_target = [mode |-> "rpm", value |-> 0],
                        !.starter_target = [mode |-> "duty", value |-> 0]]
    IN  [w1 EXCEPT !.sent = force_off_writes(w1, fail)]

_force_all_off(w, fail) ==
    LET w1 == [w EXCEPT !.pump_target = [mode |-> "rpm", value |-> 0],
                        !.starter_target = [mode |-> "duty", value |-> 0]]
        w2 == _set_psu_target(w1, 0, 0, FALSE)
    IN  [w2 EXCEPT !.sent = force_off_writes(w2, fail)]

_make_inputs(w, now) ==
    [now |-> now,
     state_t |-> IF w.fsm # NoFsm THEN state_time(w.fsm, now) ELSE 0,
     pump_rpm |-> w.last_pump_rpm,
     starter_rpm |-> w.last_starter_rpm]

(***************************************************************************)
(* The command slots.                                                      *)
(***************************************************************************)
worker_start(w) == [begin(w, "worker_start") EXCEPT !.t0 = Now, !.timer_active = TRUE]

\* Faulty shutdown: the links are released before the zero commands.
worker_stop_release_first(w, fail) ==
    LET w1 == [begin(w, "worker_stop") EXCEPT !.timer_active = FALSE, !.fsm = NoFsm]
        w2 == _disconnect_psu(_disconnect_starter(_disconnect_pump(
                 _stop_pump_profile_internal(w1))))
    IN  [_force_all_off(w2, fail) EXCEPT !.logger_open = FALSE, !.logging_on = FALSE]

\* ControllerWorker.stop.  fail is the write of _force_all_off that raises,
\* if any; what the timer, the links and the logger raise while they are
\* stopped and closed is swallowed, and the devices and the logger clear
\* their handles whether close raised or not.
worker_stop(w, fail) ==
    LET w1 == [begin(w, "worker_stop") EXCEPT !.timer_active = FALSE, !.fsm = NoFsm]
        w2 == _force_all_off(_stop_pump_profile_internal(w1), fail)
        w3 == _disconnect_psu(_disconnect_starter(_disconnect_pump(w2)))
    IN  [w3 EXCEPT !.logger_open = FALSE, !.logging_on = FALSE]

\* ok: CSVLogger.start opened the file; loaded: _ensure_run_profiles found
\* both run profiles.
cmd_ready(w, ok, loaded) ==
    LET w1 == _stop_pump_profile_internal(
                 [begin(w, "cmd_ready") EXCEPT !.t0 = Now, !.fsm = NoFsm])
        w2 == IF ok
              THEN [w1 EXCEPT !.logger_open = TRUE, !.logging_on = TRUE,
                              !.next_log_write = Now]
              ELSE emit_error([w1 EXCEPT !.logger_open = FALSE, !.logging_on = FALSE],
                              "Logger start failed")
    IN  IF loaded THEN w2 ELSE emit_error(w2, "Cannot load run profiles")

\* A reset that also drives the outputs to zero.
cmd_update_reset_force_off(w) ==
    _force_all_off(_stop_pump_profile_internal(
       [begin(w, "cmd_update_reset") EXCEPT !.t0 = Now, !.fsm = NoFsm]), "no")

cmd_update_reset(w) ==
    _stop_pump_profile_internal(
       [begin(w, "cmd_update_reset") EXCEPT !.t0 = Now, !.fsm = NoFsm])

\* The call of build_startup_fsm in cmd_run_cycle passes CallArgs positional
\* arguments (pump profile, starter profile, configuration) to a function
\* that takes at most MaxPositional (profile, cfg): the call raises
\* TypeError before a machine is built.
CallArgs == 3

MaxPositional == 2

\* loaded: the pump profile _ensure_run_profiles got, or NoProfile when a
\* workbook is missing or empty.  The TypeError leaves the slot uncaught:
\* Qt prints it and, depending on the binding's version, goes on with the
\* event loop or aborts the process; the behaviours of an aborted process
\* are the prefixes of those modelled here.
cmd_run_cycle(w, loaded) ==
    LET w1 == _stop_pump_profile_internal(begin(w, "cmd_run_cycle"))
    IN  IF loaded = NoProfile
        THEN emit_error(w1, "Cannot load run profiles")
        ELSE IF CallArgs > MaxPositional
        THEN raise(w1, "TypeError")
        ELSE LET inp == _make_inputs(w1, Now)
             IN  [w1 EXCEPT !.fsm = start(build_startup_fsm(loaded), inp),
                            !.fsm_prev_state = None]

\* A cooldown command that leaves a playback under way as it is.
cmd_cooling_cycle_keep_playback(w, duty) ==
    LET w1 == begin(w, "cmd_cooling_cycle")
        inp == _make_inputs(w1, Now)
    IN  [w1 EXCEPT !.fsm = start(build_cooling_fsm(duty), inp),
                   !.fsm_prev_state = None]

cmd_cooling_cycle(w, duty) ==
    LET w1 == _stop_pump_profile_internal(begin(w, "cmd_cooling_cycle"))
        inp == _make_inputs(w1, Now)
    IN  [w1 EXCEPT !.fsm = start(build_cooling_fsm(duty), inp),
                   !.fsm_prev_state = None]

cmd_stop_all(w, fail) ==
    _force_all_off(_stop_pump_profile_internal([begin(w, "cmd_stop_all") EXCEPT !.fsm = NoFsm]), fail)

\* res: "nopath" (empty or missing file), "loadfail", or "ok" with prof.
cmd_start_pump_profile(w, res, prof) ==
    LET w0 == begin(w, "cmd_start_pump_profile")
    IN  CASE res = "nopath" -> emit_error(w0, "Pump profile: file not found")
          [] res = "loadfail" ->
               emit_error([w0 EXCEPT !.fsm = NoFsm, !.pump_prof = NoProfile],
                          "Pump profile load error")
          [] OTHER ->
               [w0 EXCEPT !.fsm = NoFsm, !.pump_prof = prof,
                          !.pump_prof_active = TRUE, !.pump_prof_t0 = Now]

cmd_stop_pump_profile(w) == _stop_pump_profile_internal(begin(w, "cmd_stop_pump_profile"))

cmd_connect_pump(w, ok) ==
    IF ok THEN [begin(w, "cmd_connect_pump") EXCEPT !.pump_conn = TRUE]
    ELSE _disconnect_pump(emit_error(begin(w, "cmd_connect_pump"), "Pump connect error"))

cmd_disconnect_pump(w) ==
    _disconnect_pump([_stop_pump_profile_internal(begin(w, "cmd_disconnect_pump"))
                        EXCEPT !.pump_target = [mode |-> "rpm", value |-> 0]])

cmd_connect_starter(w, ok) ==
    IF ok THEN [begin(w, "cmd_connect_starter") EXCEPT !.starter_conn = TRUE]
    ELSE _disconnect_starter(emit_error(begin(w, "cmd_connect_starter"), "Starter connect error"))

cmd_disconnect_starter(w) ==
    _disconnect_starter([_stop_pump_profile_internal(begin(w, "cmd_disconnect_starter"))
                           EXCEPT !.starter_target = [mode |-> "duty", value |-> 0]])

cmd_connect_psu(w, ok) ==
    IF ok THEN [begin(w, "cmd_connect_psu") EXCEPT !.psu_conn = TRUE]
    ELSE _disconnect_psu(emit_error(begin(w, "cmd_connect_psu"), "PSU connect error"))

cmd_disconnect_psu(w) ==
    _disconnect_psu(_set_psu_target(_stop_pump_profile_internal(begin(w, "cmd_disconnect_psu")), 0, 0, FALSE))

\* Faulty manual pump slots: the cyclogram is kept in every state.
set_pump_target_never_cancel(w, name, tgt) ==
    [_stop_pump_profile_internal(begin(w, name)) EXCEPT !.pump_target = tgt]

\* The two manual pump slots share their shape: in Running the cyclogram is
\* kept, otherwise it is dropped.
set_pump_target(w, name, tgt) ==
    LET w1 == _stop_pump_profile_internal(begin(w, name))
    IN  IF w1.fsm # NoFsm /\ w1.fsm.current = "Running"
        THEN [w1 EXCEPT !.pump_target = tgt]
        ELSE [w1 EXCEPT !.fsm = NoFsm, !.pump_target = tgt]

cmd_set_pump_rpm(w, rpm) ==
    set_pump_target(w, "cmd_set_pump_rpm", [mode |-> "rpm", value |-> rpm])

cmd_set_pump_duty(w, duty) ==
    set_pump_target(w, "cmd_set_pump_duty", [mode |-> "duty", value |-> _clamp01(duty)])

cmd_set_starter_duty(w, duty) ==
    [_stop_pump_profile_internal(begin(w, "cmd_set_starter_duty"))
        EXCEPT !.fsm = NoFsm,
               !.starter_target = [mode |-> "duty", value |-> _clamp01(duty)]]

cmd_set_starter_rpm(w, rpm) ==
    [_stop_pump_profile_internal(begin(w, "cmd_set_starter_rpm"))
        EXCEPT !.fsm = NoFsm,
               !.starter_target = [mode |-> "rpm", value |-> rpm]]

cmd_psu_set_vi(w, v, i) ==
    LET w1 == [_stop_pump_profile_internal(begin(w, "cmd_psu_set_vi")) EXCEPT !.fsm = NoFsm]
    IN  _set_psu_target(w1, v, i, w1.psu_target.out)

cmd_psu_output(w, on) ==
    LET w1 == [_stop_pump_profile_internal(begin(w, "cmd_psu_output")) EXCEPT !.fsm = NoFsm]
    IN  _set_psu_target(w1, w1.psu_target.v, w1.psu_target.i, on)

(***************************************************************************)
(* The timer slot _tick, step by step.  F is the set of device operations  *)
(* that raise a transport error (SerialException / OSError) in this tick;  *)
(* rd is what the polls return: res and rpm from the starter link's        *)
(* read_values, psu from the PSU poll ("skip": not due in this tick).      *)
(***************************************************************************)
StarterReads ==
    {[res |-> "none", rpm |-> 0]} \cup {[res |-> "ok", rpm |-> v] : v \in RpmLevels}

\* The keys of the dict RidenPSU.read returns.
PsuKeys == {"v_set", "i_set", "v_out", "i_out", "p_out", "v_in", "output"}

PsuPolls == {"skip", "due"}

\* _vesc_read and the assignment of its result to _last_pump / _last_starter.
read_pump(w, F) ==
    IF ~w.pump_conn THEN w
    ELSE IF "pump_read" \in F
         THEN _disconnect_pump(emit_error(w, "pump disconnected"))
         ELSE [w EXCEPT !.last_pump_rpm = PumpRpmReading]

read_starter(w, F, rd) ==
    IF ~w.starter_conn THEN w
    ELSE IF "starter_read" \in F
         THEN _disconnect_starter(emit_error(w, "starter disconnected"))
         ELSE IF rd.res = "ok" THEN [w EXCEPT !.last_starter_rpm = rd.rpm] ELSE w

read_psu(w, F, rd) ==
    IF ~w.psu_conn \/ rd.psu = "skip" THEN w
    ELSE IF "psu_read" \in F
         THEN _disconnect_psu(emit_error(w, "PSU read error"))
         ELSE [w EXCEPT !.last_psu = PsuKeys]

\* Manual pump profile: only when no cyclogram is active.
tick_pump_profile(w, now) ==
    IF w.fsm = NoFsm /\ w.pump_prof_active /\ w.pump_prof # NoProfile
    THEN LET elapsed == now - w.pump_prof_t0
             end_t == end_time(w.pump_prof)
             w1 == IF end_t > 0 /\ elapsed >= end_t
                   THEN [_stop_pump_profile_internal(w)
                            EXCEPT !.pump_target = [mode |-> "rpm", value |-> 0]]
                   ELSE w
         IN  IF w1.pump_prof_active
             THEN [w1 EXCEPT !.pump_target =
                      [mode |-> "rpm", value |-> interp_profile(w1.pump_prof, elapsed)]]
             ELSE w1
    ELSE w

\* Surfacing a fault: on a change of state, the reason of a switch to Fault.
surface_fault(w, f) ==
    IF f.current # w.fsm_prev_state
    THEN LET reason == MetaGet(f.targets.meta, "transition_reason", None)
             w1 == [w EXCEPT !.fsm_prev_state = f.current]
         IN  IF f.current = "Fault" /\ reason # None /\ reason # ""
             THEN emit_error(w1, reason) ELSE w1
    ELSE w

\* A faulty reconciliation: the pump target is left alone in every state.
reconcile_never_pump(w, f) ==
    _set_psu_target([w EXCEPT !.starter_target = f.targets.starter],
                    f.targets.psu.v, f.targets.psu.i, f.targets.psu.out)

\* Target reconciliation: in Running the pump target is left alone.
reconcile(w, f) ==
    LET w1 == IF f.current # "Running"
              THEN [w EXCEPT !.pump_target = f.targets.pump] ELSE w
        w2 == [w1 EXCEPT !.starter_target = f.targets.starter]
    IN  _set_psu_target(w2, f.targets.psu.v, f.targets.psu.i, f.targets.psu.out)

tick_cyclogram(w, now) ==
    IF w.fsm = NoFsm THEN w
    ELSE LET inp == _make_inputs(w, now)
             f == tick(w.fsm, inp)
         IN  reconcile(surface_fault([w EXCEPT !.fsm = f], f), f)

\* A faulty PSU apply: the setpoints are written again with every apply.
psu_apply_resend(w, now, F) ==
    IF w.psu_conn /\ w.psu_dirty /\ now >= w.psu_next_cmd
    THEN LET t == w.psu_target
             w1 == [w EXCEPT !.psu_applied.v = t.v, !.psu_applied.i = t.i,
                             !.sent.psu = Append(w.sent.psu,
                                [op |-> "set_vi", v |-> t.v, i |-> t.i, out |-> FALSE])]
             w2 == IF w1.psu_applied.out # Bit(t.out)
                   THEN [w1 EXCEPT !.psu_applied.out = Bit(t.out),
                                   !.sent.psu = Append(w1.sent.psu,
                                      [op |-> "output", v |-> 0, i |-> 0, out |-> t.out])]
                   ELSE w1
         IN  [w2 EXCEPT !.psu_dirty = FALSE, !.psu_next_cmd = now + PsuCmdSpacing]
    ELSE w

\* "PSU apply only changed".
psu_apply(w, now, F) ==
    IF w.psu_conn /\ w.psu_dirty /\ now >= w.psu_next_cmd
    THEN LET t == w.psu_target
             needVI == w.psu_applied.v # t.v \/ w.psu_applied.i # t.i
             failed(x) == _disconnect_psu(emit_error(x, "PSU cmd error"))
             w1 == IF needVI
                   THEN [w EXCEPT !.psu_applied.v = t.v, !.psu_applied.i = t.i,
                                  !.sent.psu = Append(w.sent.psu,
                                     [op |-> "set_vi", v |-> t.v, i |-> t.i, out |-> FALSE])]
                   ELSE w
             needOut == w1.psu_applied.out # Bit(t.out)
             w2 == IF needOut
                   THEN [w1 EXCEPT !.psu_applied.out = Bit(t.out),
                                   !.sent.psu = Append(w1.sent.psu,
                                      [op |-> "output", v |-> 0, i |-> 0, out |-> t.out])]
                   ELSE w1
         IN  IF needVI /\ "psu_set_vi" \in F THEN failed(w)
             ELSE IF needOut /\ "psu_output" \in F THEN failed(w1)
             ELSE [w2 EXCEPT !.psu_dirty = FALSE, !.psu_next_cmd = now + PsuCmdSpacing]
    ELSE w

\* CSVLogger.flush: whatever the file raises ("csv_flush" in F) is
\* swallowed; the caller sees a normal return.
logger_flush(w, F) == w

\* "CSV 5 Hz": the append of a row, then the flush when it is due;
\* write_row lets the file's exception through.
csv_write(w, now, F) ==
    IF w.logging_on /\ w.logger_open /\ now >= w.next_log_write
    THEN IF "csv_write" \in F
         THEN emit_error([w EXCEPT !.csv = "failed"], "CSV error")
         ELSE logger_flush([w EXCEPT !.csv = "row", !.next_log_write = now + LogSpacing], F)
    ELSE w

vesc_command(target) ==
    IF target.mode = "rpm" THEN [op |-> "set_rpm_mech", value |-> target.value]
    ELSE [op |-> "set_duty", value |-> _clamp01(target.value)]

\* _vesc_send_and_request for the two actuators: the command, then
\* request_values; either write can raise.
send_pump(w, F) ==
    IF ~w.pump_conn THEN w
    ELSE IF "pump_send" \in F
         THEN _disconnect_pump(emit_error(w, "pump disconnected"))
         ELSE LET w1 == [w EXCEPT !.sent.pump = vesc_command(w.pump_target)]
              IN  IF "pump_request" \in F
                  THEN _disconnect_pump(emit_error(w1, "pump disconnected"))
                  ELSE [w1 EXCEPT !.requested = @ \cup {"pump"}]

\* Faulty send: a zero target is not repeated.
send_starter_nonzero(w, F) ==
    IF ~w.starter_conn \/ w.starter_target.value = 0 THEN w
    ELSE [w EXCEPT !.sent.starter = vesc_command(w.starter_target),
                   !.requested = @ \cup {"starter"}]

send_starter(w, F) ==
    IF ~w.starter_conn THEN w
    ELSE IF "starter_send" \in F
         THEN _disconnect_starter(emit_error(w, "starter disconnected"))
         ELSE LET w1 == [w EXCEPT !.sent.starter = vesc_command(w.starter_target)]
              IN  IF "starter_request" \in F
                  THEN _disconnect_starter(emit_error(w1, "starter disconnected"))
                  ELSE [w1 EXCEPT !.requested = @ \cup {"starter"}]

\* The body of _tick, inside its try block.
tick_body(w, F, rd) ==
    LET now == Now
        w1 == read_psu(read_starter(read_pump(begin(w, "_tick"), F), F, rd), F, rd)
        w2 == tick_cyclogram(tick_pump_profile(w1, now), now)
        w3 == psu_apply(w2, now, F)
    IN  csv_write(send_starter(send_pump(w3, F), F), now, F)

\* "self._in_tick = True", past the guard.
tick_enter(w) == [w EXCEPT !.in_tick = TRUE]

\* Faulty exit: the flag is cleared at the end of the body, not in a
\* finally clause.
tick_leave_no_finally(w, F, rd, exc) ==
    IF exc THEN raise(begin(w, "_tick"), "Exception")
    ELSE [tick_body(w, F, rd) EXCEPT !.in_tick = FALSE]

\* The body and the finally clause.  exc: the body raises something none
\* of its handlers catches, before it has changed anything.
tick_leave(w, F, rd, exc) ==
    [(IF exc THEN raise(begin(w, "_tick"), "Exception") ELSE tick_body(w, F, rd))
        EXCEPT !.in_tick = FALSE]

\* The timer slot: an invocation that finds the flag set returns at once.
_tick(w, F, rd) ==
    IF w.in_tick THEN w ELSE tick_leave(tick_enter(w), F, rd, FALSE)

\* The largest duration state_t is compared with in the state f is in.
state_t_horizon(f) ==
    IF f.kind = "startup"
    THEN CASE f.current = "Starter" -> starter_timeout_s
           [] f.current = "Ignition" ->
                SetMax({ignition_timeout_s, valve_switch_s, end_time(f.profile),
                        starter_duty_profile_ign[Len(starter_duty_profile_ign)][1]})
           [] f.current = "FuelRamp" -> Max(fuelramp_timeout_s, end_time(f.profile))
           [] OTHER -> 0
    ELSE IF f.kind = "cyclograms"
    THEN CASE f.current = "Starter" -> cfg_starter_timeout_s
           [] f.current = "Ignition" -> Max(cfg_ignition_timeout_s, ignition_min_time_s)
           [] f.current = "FuelRamp" -> ramp_timeout_s
           [] OTHER -> 0
    ELSE IF f.kind = "chain"
    THEN IF f.current = "Third" THEN 0 ELSE Max(chain_timeout_s, chain_dwell_s)
    ELSE IF f.current = "Cooling" THEN duration_s ELSE 0

hold_s(h) ==
    CASE h = "starter_ready" -> starter_min_hold_s
      [] h = "ignition_ready" -> ignition_hold_s
      [] h = "ramp_ready" -> fuelramp_finish_hold_s
      [] h = "cfg_starter_ready" -> cfg_starter_ready_hold_s
      [] h = "running_ready" -> running_hold_s
      [] h = "drop_fault" -> drop_hold_s
      [] h = "first_held" -> chain_hold_s

elapse_fsm(f, d) ==
    [f EXCEPT !.enter = Shift(@, d, state_t_horizon(f)),
              !.holds = [h \in DOMAIN @ |-> Shift(@[h], d, hold_s(h))]]

\* d ticks of the clock pass: every stored timestamp is d older.
elapse(w, d) ==
    [w EXCEPT !.t0 = Shift(@, d, MaxSession),
              !.psu_next_cmd = ShiftDeadline(@, d),
              !.next_log_write = ShiftDeadline(@, d),
              !.pump_prof_t0 = IF w.pump_prof_active
                               THEN Shift(@, d, end_time(w.pump_prof)) ELSE @,
              !.fsm = IF @ = NoFsm THEN @ ELSE elapse_fsm(@, d)]

(***************************************************************************)
(* The worker after __init__, and its steps.                               *)
(***************************************************************************)
WorkerInit ==
    [slot |-> "__init__", timer_active |-> FALSE,
     pump_conn |-> FALSE, starter_conn |-> FALSE, psu_conn |-> FALSE,
     last_pump_rpm |-> 0, last_starter_rpm |-> 0, last_psu |-> {},
     logging_on |-> FALSE, logger_open |-> FALSE, next_log_write |-> 0, csv |-> "none",
     requested |-> {}, in_tick |-> FALSE,
     pump_target |-> [mode |-> "rpm", value |-> 0],
     starter_target |-> [mode |-> "duty", value |-> 0],
     psu_target |-> [v |-> 0, i |-> 0, out |-> FALSE],
     psu_dirty |-> FALSE,
     psu_applied |-> [v |-> NoTime, i |-> NoTime, out |-> NoTime],
     psu_next_cmd |-> 0,
     fsm |-> NoFsm, fsm_prev_state |-> None,
     pump_prof_active |-> FALSE, pump_prof_t0 |-> 0, pump_prof |-> NoProfile,
     t0 |-> Now,
     error |-> << >>, sent |-> NoSent, raised |-> None]

vars == <<self, ncmd, machine, hold, probe, beat>>

\* The test benches further down (a CycleFSM driven directly, a Hold
\* evaluated directly, the interpolation functions called directly) are
\* idle while the worker runs; beat is flipped by
\* the timer where the timer's firing is counted (SpecLoop).
bench == <<machine, hold, probe>>

IdleBench == machine = NoFsm /\ hold = NoTime /\ probe = NoProbe /\ beat = FALSE

Init == self = WorkerInit /\ ncmd = 0 /\ IdleBench

\* The transport errors a tick can meet: at most MaxFaults of the device
\* operations of the links that are open.
FaultSets(w) ==
    LET open == (IF w.pump_conn THEN {"pump_read", "pump_send", "pump_request"} ELSE {})
                \cup (IF w.starter_conn
                      THEN {"starter_read", "starter_send", "starter_request"} ELSE {})
                \cup (IF w.psu_conn THEN {"psu_read", "psu_set_vi", "psu_output"} ELSE {})
                \cup (IF w.logging_on /\ w.logger_open THEN {"csv_write", "csv_flush"} ELSE {})
    IN  {F \in SUBSET open : Cardinality(F) <= MaxFaults}

Reads(w) ==
    {[res |-> s.res, rpm |-> s.rpm, psu |-> p] :
        s \in (IF w.starter_conn THEN StarterReads ELSE {[res |-> "none", rpm |-> 0]}),
        p \in (IF w.psu_conn THEN PsuPolls ELSE {"skip"})}

\* stop is the last slot of the worker: the window invokes it when it
\* closes and ends the worker's thread.
Alive == self.slot # "worker_stop"

Start ==
    /\ Alive /\ ~self.timer_active
    /\ self' = worker_start(self) /\ UNCHANGED <<ncmd, bench, beat>>

TickStep ==
    /\ self.timer_active
    /\ \E F \in FaultSets(self), rd \in Reads(self) : self' = _tick(self, F, rd)
    /\ UNCHANGED <<ncmd, bench>>

Tick == TickStep /\ UNCHANGED beat

Elapse ==
    (\E d \in 1..MaxDt : self' = elapse(self, d)) /\ UNCHANGED <<ncmd, bench, beat>>

RunCycle == \E loaded \in RunProfiles \cup {NoProfile} : self' = cmd_run_cycle(self, loaded)

CoolingCycle == \E duty \in ManualDuty : self' = cmd_cooling_cycle(self, duty)

\* The write of _force_all_off that raises, if any.
StopFails == {"no", "pump", "starter", "psu"}

StopAll == \E fail \in StopFails : self' = cmd_stop_all(self, fail)

UpdateReset == self' = cmd_update_reset(self)

Ready == \E ok \in BOOLEAN, loaded \in BOOLEAN : self' = cmd_ready(self, ok, loaded)

StartPumpProfile ==
    \E res \in {"nopath", "loadfail", "ok"}, prof \in RunProfiles :
        self' = cmd_start_pump_profile(self, res, prof)

StopPumpProfile == self' = cmd_stop_pump_profile(self)

Connect ==
    \E ok \in BOOLEAN :
        \/ self' = cmd_connect_pump(self, ok)
        \/ self' = cmd_connect_starter(self, ok)
        \/ self' = cmd_connect_psu(self, ok)

Disconnect ==
    \/ self' = cmd_disconnect_pump(self)
    \/ self' = cmd_disconnect_starter(self)
    \/ self' = cmd_disconnect_psu(self)

SetPump ==
    \/ \E rpm \in ManualPumpRpm : self' = cmd_set_pump_rpm(self, rpm)
    \/ \E duty \in ManualDuty : self' = cmd_set_pump_duty(self, duty)

SetStarter ==
    \/ \E duty \in ManualDuty : self' = cmd_set_starter_duty(self, duty)
    \/ \E rpm \in ManualStarterRpm : self' = cmd_set_starter_rpm(self, rpm)

SetPsu ==
    \/ \E vi \in ManualVI : self' = cmd_psu_set_vi(self, vi.v, vi.i)
    \/ \E on \in BOOLEAN : self' = cmd_psu_output(self, on)

\* The operator's commands, at most n of them.
CommandUpTo(n) ==
    /\ Alive
    /\ ncmd < n
    /\ ncmd' = ncmd + 1
    /\ UNCHANGED <<bench, beat>>
    /\ \/ RunCycle \/ CoolingCycle \/ StopAll \/ UpdateReset \/ Ready
       \/ StartPumpProfile \/ StopPumpProfile
       \/ Connect \/ Disconnect
       \/ SetPump \/ SetStarter \/ SetPsu

Command == CommandUpTo(MaxCommands)

Shutdown ==
    /\ Alive
    /\ \E fail \in StopFails : self' = worker_stop(self, fail)
    /\ UNCHANGED <<ncmd, bench, beat>>

Next == Start \/ Tick \/ Elapse \/ Command \/ Shutdown

Spec == Init /\ [][Next]_vars

(***************************************************************************)
(* A session under way: the timer runs and the links to the pump and the   *)
(* starter are open; the operator gives at most MaxRunCommands commands.   *)
(***************************************************************************)
MaxRunCommands == 2

Connected(w, devs) ==
    LET w1 == IF "pump" \in devs THEN cmd_connect_pump(w, TRUE) ELSE w
        w2 == IF "starter" \in devs THEN cmd_connect_starter(w1, TRUE) ELSE w1
    IN  IF "psu" \in devs THEN cmd_connect_psu(w2, TRUE) ELSE w2

RunInit ==
    /\ self = Connected(worker_start(WorkerInit), {"pump", "starter"})
    /\ ncmd = 0 /\ IdleBench

RunCommand == CommandUpTo(MaxRunCommands)

RunNext == Tick \/ Elapse \/ RunCommand

SpecRun == RunInit /\ [][RunNext]_vars

(***************************************************************************)
(* The loop left to itself: all three links open, a cyclogram started, and *)
(* from then on only the timer and the clock.  The QTimer keeps firing     *)
(* (each firing flips beat) and time keeps passing.                        *)
(***************************************************************************)
LoopInit ==
    /\ LET w == Connected(worker_start(WorkerInit), {"pump", "starter", "psu"})
       IN  self \in {cmd_run_cycle(w, p) : p \in RunProfiles}
                    \cup {cmd_cooling_cycle(w, d) : d \in ManualDuty}
    /\ ncmd = 0 /\ IdleBench

LoopTick == TickStep /\ beat' = ~beat

TimerFires == self.timer_active /\ beat' = ~beat

LoopNext == LoopTick \/ Elapse

SpecLoop == LoopInit /\ [][LoopNext]_vars /\ WF_beat(TimerFires) /\ WF_vars(Elapse)

(***************************************************************************)
(* The tick in two steps, entry and the rest, so that the timer slot can   *)
(* be invoked again in between.  probe marks the tick under way; beat      *)
(* flips at each invocation that finds one under way.  The other slots run *)
(* between ticks only.                                                     *)
(***************************************************************************)
InTick == [call |-> "_tick"]

TickEnter ==
    /\ self.timer_active /\ probe = NoProbe /\ ~self.in_tick
    /\ self' = tick_enter(self) /\ probe' = InTick
    /\ UNCHANGED <<ncmd, machine, hold, beat>>

TickNested ==
    /\ self.timer_active /\ probe = InTick
    /\ \E F \in FaultSets(self), rd \in Reads(self) : self' = _tick(self, F, rd)
    /\ beat' = ~beat
    /\ UNCHANGED <<ncmd, bench>>

TickLeave ==
    /\ probe = InTick
    /\ \E F \in FaultSets(self), rd \in Reads(self), exc \in BOOLEAN :
          self' = tick_leave(self, F, rd, exc)
    /\ probe' = NoProbe
    /\ UNCHANGED <<ncmd, machine, hold, beat>>

MaxOverlapCommands == 1

OverlapCommand == probe = NoProbe /\ CommandUpTo(MaxOverlapCommands)

OverlapNext == TickEnter \/ TickNested \/ TickLeave \/ Elapse \/ OverlapCommand

SpecOverlap == RunInit /\ [][OverlapNext]_vars

(***************************************************************************)
(* The loop left to itself with a playback of the pump profile started     *)
(* instead of a cyclogram.                                                 *)
(***************************************************************************)
PlayInit ==
    /\ LET w == Connected(worker_start(WorkerInit), {"pump", "starter", "psu"})
       IN  self \in {cmd_start_pump_profile(w, "ok", p) : p \in RunProfiles}
    /\ ncmd = 0 /\ IdleBench

SpecPlay == PlayInit /\ [][LoopNext]_vars /\ WF_beat(TimerFires) /\ WF_vars(Elapse)

(***************************************************************************)
(* A CycleFSM driven directly: start, tick and stop are called in any      *)
(* order on one object, with the inputs built as _make_inputs builds them. *)
(* machine holds the object (fsm), the inputs and the name of the last     *)
(* call, and four observations of the caller:                              *)
(*   started   start has been called;                                      *)
(*   switched  the last call switched the state;                           *)
(*   since     the time of the first tick of the unbroken run of ticks, in *)
(*             the present visit to the state, whose starter rpm was at or *)
(*             above the threshold of the state's guard;                   *)
(*   span      the length of that run at the last tick (NoTime: broken).   *)
(***************************************************************************)
BenchRpm ==
    {0, starter_min_rpm - 1, starter_min_rpm, ignition_min_starter_rpm,
     fuelramp_finish_starter_rpm}

StopReasons == {None, "operator stop"}

\* The Hold a transition out of state s evaluates, its threshold and its
\* duration, as build_startup_fsm creates them.
guard_hold(f, s) ==
    IF f.kind = "startup"
    THEN CASE s = "Starter" -> "starter_ready"
           [] s = "Ignition" -> "ignition_ready"
           [] s = "FuelRamp" -> "ramp_ready"
           [] OTHER -> None
    ELSE None

guard_rpm(h) ==
    CASE h = "starter_ready" -> starter_min_rpm
      [] h = "ignition_ready" -> ignition_min_starter_rpm
      [] h = "ramp_ready" -> fuelramp_finish_starter_rpm

bench_inputs(f, rpm) ==
    [now |-> Now, state_t |-> state_time(f, Now), pump_rpm |-> 0, starter_rpm |-> rpm]

MachineInit(f) ==
    [fsm |-> f, inp |-> bench_inputs(f, 0), call |-> "__init__", started |-> FALSE,
     switched |-> FALSE, since |-> NoTime, span |-> NoTime, age |-> NoTime]

bench_start(m, rpm) ==
    LET inp == bench_inputs(m.fsm, rpm)
    IN  [m EXCEPT !.fsm = start(m.fsm, inp), !.inp = inp, !.call = "start",
                  !.started = TRUE,
                  !.switched = TRUE, !.since = NoTime, !.span = NoTime]

bench_stop(m, rpm, reason) ==
    LET inp == bench_inputs(m.fsm, rpm)
    IN  [m EXCEPT !.fsm = stop(m.fsm, inp, reason), !.inp = inp, !.call = "stop",
                  !.switched = TRUE, !.since = NoTime, !.span = NoTime]

bench_tick(m, rpm) ==
    LET inp == bench_inputs(m.fsm, rpm)
        f == tick(m.fsm, inp)
        h == guard_hold(m.fsm, m.fsm.current)
        sw == f.last_transition_reason # None \/ f.current # m.fsm.current
        t == IF h # None /\ rpm >= guard_rpm(h)
             THEN (IF m.since = NoTime THEN Now ELSE m.since)
             ELSE NoTime
    IN  [m EXCEPT !.fsm = f, !.inp = inp, !.call = "tick", !.switched = sw,
                  !.since = IF sw THEN NoTime ELSE t,
                  !.span = IF t = NoTime THEN NoTime ELSE Now - t]

MaxHold == SetMax({starter_min_hold_s, ignition_hold_s, fuelramp_finish_hold_s})

\* The three timeouts of the startup graph, and the largest age of a started
\* machine that is told apart (NoTime: the age is not followed).
SumTimeouts == starter_timeout_s + ignition_timeout_s + fuelramp_timeout_s

MaxAge == SumTimeouts + MaxDt

bench_elapse(m, d) ==
    [m EXCEPT !.fsm = elapse_fsm(@, d), !.since = Shift(@, d, MaxHold),
              !.age = IF @ = NoTime THEN @ ELSE Min(@ + d, MaxAge)]

FsmInit ==
    /\ machine \in {MachineInit(build_startup_fsm(p)) : p \in RunProfiles}
                   \cup {MachineInit(build_cooling_fsm(d)) : d \in ManualDuty}
    /\ self = WorkerInit /\ ncmd = 0 /\ hold = NoTime /\ probe = NoProbe /\ beat = FALSE

FsmStart ==
    /\ \E rpm \in BenchRpm : machine' = bench_start(machine, rpm)
    /\ UNCHANGED <<self, ncmd, hold, probe, beat>>

FsmTick ==
    /\ \E rpm \in BenchRpm : machine' = bench_tick(machine, rpm)
    /\ UNCHANGED <<self, ncmd, hold, probe, beat>>

FsmStop ==
    /\ \E rpm \in BenchRpm, reason \in StopReasons :
          machine' = bench_stop(machine, rpm, reason)
    /\ UNCHANGED <<self, ncmd, hold, probe, beat>>

FsmElapse ==
    /\ \E d \in 1..MaxDt : machine' = bench_elapse(machine, d)
    /\ UNCHANGED <<self, ncmd, hold, probe, beat>>

FsmNext == FsmStart \/ FsmTick \/ FsmStop \/ FsmElapse

SpecFSM == FsmInit /\ [][FsmNext]_vars

(***************************************************************************)
(* The worker and the bench side by side: a behaviour is either one of the *)
(* worker (the bench idle) or one of a CycleFSM driven directly (the       *)
(* worker as constructed).                                                 *)
(***************************************************************************)
UnitsInit == Init \/ FsmInit

UnitsNext == (machine = NoFsm /\ Next) \/ (machine # NoFsm /\ FsmNext)

SpecUnits == UnitsInit /\ [][UnitsNext]_vars

(***************************************************************************)
(* A Hold evaluated directly, on a clock of its own that never goes back.  *)
(* hold holds the object (hold_s and _t0), the clock, the last call with   *)
(* the predicate's value p and the result ret, and one observation of the  *)
(* caller: first, the time of the first true evaluation since the last     *)
(* reset or false evaluation (NoTime: none), and broken, whether a false   *)
(* evaluation has ended a run of true ones.                                *)
(***************************************************************************)
MaxNow == 6

HoldDurations == {0, starter_min_hold_s, MaxHold + 1}

HoldInit(d) ==
    [hold_s |-> d, t0 |-> NoTime, now |-> 0, call |-> "__init__",
     p |-> FALSE, ret |-> FALSE, first |-> NoTime, broken |-> FALSE]

hold_eval(h, p, now) ==
    LET r == HoldCall(h.t0, h.hold_s, p, [now |-> now])
    IN  [h EXCEPT !.t0 = r.t0, !.now = now, !.call = "__call__", !.p = p,
                  !.ret = r.ret,
                  !.first = IF p THEN (IF h.first = NoTime THEN now ELSE h.first)
                            ELSE NoTime,
                  !.broken = h.broken \/ (~p /\ h.first # NoTime)]

hold_reset(h) == [h EXCEPT !.t0 = NoTime, !.call = "reset", !.first = NoTime]

HoldBenchInit ==
    /\ hold \in {HoldInit(d) : d \in HoldDurations}
    /\ self = WorkerInit /\ ncmd = 0 /\ machine = NoFsm /\ probe = NoProbe /\ beat = FALSE

HoldEval ==
    /\ \E p \in BOOLEAN, dt \in 0..MaxDt :
          /\ hold.now + dt <= MaxNow
          /\ hold' = hold_eval(hold, p, hold.now + dt)
    /\ UNCHANGED <<self, ncmd, machine, probe, beat>>

HoldReset == hold' = hold_reset(hold) /\ UNCHANGED <<self, ncmd, machine, probe, beat>>

HoldNext == HoldEval \/ HoldReset

SpecHold == HoldBenchInit /\ [][HoldNext]_vars

(***************************************************************************)
(* The interpolation functions called directly.  probe holds the profile   *)
(* (sample times non-decreasing, in a unit of its own; the same samples    *)
(* serve interp_time_value as a list of points), the function called last, *)
(* its argument x and its result y.                                        *)
(***************************************************************************)
MaxT == 4

MaxSamples == 4

SampleValues == {600, 1200}

RECURSIVE NonDecreasing(_, _)
NonDecreasing(n, lo) ==
    IF n = 0 THEN {<< >>}
    ELSE UNION {{<<t>> \o r : r \in NonDecreasing(n - 1, t)} : t \in lo..MaxT}

\* Scenario C, the times in halves of a second: (0, 1000), (5 s, 3000).
ScenarioC == [t |-> <<0, 10>>, rpm |-> <<1000, 3000>>]

Profiles ==
    {ScenarioC} \cup
    UNION {{[t |-> ts, rpm |-> ys] : ts \in NonDecreasing(n, 0),
                                     ys \in [1..n -> SampleValues]} : n \in 1..MaxSamples}

SampleTimes == 0..(MaxT + 1)

Points(profile) == [k \in 1..Len(profile.t) |-> <<profile.t[k], profile.rpm[k]>>]

ProbeInit(profile) == [profile |-> profile, call |-> "__init__", x |-> 0, y |-> 0]

InterpInit ==
    /\ probe \in {ProbeInit(p) : p \in Profiles}
    /\ self = WorkerInit /\ ncmd = 0 /\ machine = NoFsm /\ hold = NoTime /\ beat = FALSE

CallInterpProfile ==
    /\ \E x \in SampleTimes :
          probe' = [probe EXCEPT !.call = "interp_profile", !.x = x,
                                 !.y = interp_profile(probe.profile, x)]
    /\ UNCHANGED <<self, ncmd, machine, hold, beat>>

CallInterpTimeValue ==
    /\ \E x \in SampleTimes :
          probe' = [probe EXCEPT !.call = "interp_time_value", !.x = x,
                                 !.y = interp_time_value(Points(probe.profile), x)]
    /\ UNCHANGED <<self, ncmd, machine, hold, beat>>

InterpNext == CallInterpProfile \/ CallInterpTimeValue

SpecInterp == InterpInit /\ [][InterpNext]_vars

(***************************************************************************)
(* Properties of the engine and of the startup graph, on the bench.        *)
(***************************************************************************)
HasTimeout(f) == timeout_s(f, f.current) # NoTime /\ on_timeout(f, f.current) # None

\* C4: in a state S with a timeout and a timeout target, a tick whose
\* inputs have state_t >= timeout leaves the machine in the timeout target;
\* S is left on the first such tick whatever the guards say.
C4_TimeoutReachesTarget ==
    (/\ HasTimeout(machine.fsm)
     /\ state_time(machine.fsm, Now) >= timeout_s(machine.fsm, machine.fsm.current))
    => \A rpm \in BenchRpm :
          LET m == bench_tick(machine, rpm)
          IN  /\ m.fsm.current = on_timeout(machine.fsm, machine.fsm.current)
              /\ m.fsm.current # machine.fsm.current

\* A tick took FuelRamp to Fault by its timeout: no guard fired before.
C4_Witness ==
    /\ machine.started /\ machine.call = "tick"
    /\ machine.fsm.current = "Fault"
    /\ machine.fsm.last_state = "FuelRamp"
    /\ machine.inp.state_t >= fuelramp_timeout_s
    /\ machine.fsm.last_transition_reason = timeout_reason(machine.fsm, "FuelRamp")

StarterTimeoutReason ==
    "Stop: Starter did not reach " \o ToString(starter_min_rpm) \o " rpm in "
    \o ToString(starter_timeout_s) \o "s"

\* C9: in Starter, a tick whose starter rpm is below the threshold keeps
\* the machine in Starter while state_t < starter timeout and takes it to
\* Fault once state_t >= starter timeout; the reason of that switch names
\* the threshold and the timeout, and meta["fault"] equals it.
C9_StarterTimeoutFault ==
    (machine.fsm.kind = "startup" /\ machine.fsm.current = "Starter")
    => \A rpm \in {r \in BenchRpm : r < starter_min_rpm} :
          LET m == bench_tick(machine, rpm)
          IN  IF state_time(machine.fsm, Now) >= starter_timeout_s
              THEN /\ m.fsm.current = "Fault"
                   /\ m.fsm.last_transition_reason = StarterTimeoutReason
                   /\ MetaGet(m.fsm.targets.meta, "transition_reason", None)
                         = StarterTimeoutReason
                   /\ MetaGet(m.fsm.targets.meta, "fault", None) = StarterTimeoutReason
              ELSE m.fsm.current = "Starter"

\* The starter rpm was below the threshold and the tick at the timeout
\* entered Fault.
C9_Witness ==
    /\ machine.started /\ machine.call = "tick"
    /\ machine.fsm.current = "Fault"
    /\ machine.fsm.last_state = "Starter"
    /\ machine.inp.starter_rpm = starter_min_rpm - 1
    /\ machine.inp.state_t >= starter_timeout_s
    /\ MetaGet(machine.fsm.targets.meta, "fault", None) = StarterTimeoutReason

\* C10: in Starter before the timeout, a tick leaves for Ignition exactly
\* when the starter rpm has been at or above the threshold on every tick of
\* an unbroken run that spans at least the hold duration; otherwise the
\* machine stays in Starter, and it does not enter Fault.
C10_StarterLeavesAfterHold ==
    (/\ machine.fsm.kind = "startup"
     /\ machine.fsm.current = "Starter"
     /\ state_time(machine.fsm, Now) < starter_timeout_s)
    => \A rpm \in BenchRpm :
          LET m == bench_tick(machine, rpm)
          IN  /\ m.fsm.current \in {"Starter", "Ignition"}
              /\ m.fsm.current = "Ignition"
                    <=> (m.span # NoTime /\ m.span >= starter_min_hold_s)

\* The rpm rose to the threshold after entry, held, and the machine left
\* Starter for Ignition before the timeout.
C10_Witness ==
    /\ machine.started /\ machine.call = "tick"
    /\ machine.fsm.current = "Ignition"
    /\ machine.fsm.last_state = "Starter"
    /\ machine.span = starter_min_hold_s
    /\ machine.inp.state_t > starter_min_hold_s
    /\ machine.inp.state_t < starter_timeout_s

\* The guard of the last switch fired (a switch by a transition, not by a
\* timeout, start or stop).
GuardFired(m) ==
    /\ m.call = "tick" /\ m.switched
    /\ guard_hold(m.fsm, m.fsm.last_state) # None
    /\ m.fsm.last_transition_reason # timeout_reason(m.fsm, m.fsm.last_state)

\* C6: after a switch into a state S the Hold of the transition out of S
\* has no stored first-true time, and a transition fires only when its
\* threshold has held for the hold duration within the present visit.
C6_ReentryResetsHolds ==
    /\ (machine.switched /\ guard_hold(machine.fsm, machine.fsm.current) # None)
          => machine.fsm.holds[guard_hold(machine.fsm, machine.fsm.current)] = NoTime
    /\ GuardFired(machine)
          => /\ machine.span # NoTime
             /\ machine.span >= hold_s(guard_hold(machine.fsm, machine.fsm.last_state))

\* C5: Hold is a contiguous-hold debouncer.  With first the time of the
\* first true evaluation since the last reset or false evaluation, an
\* evaluation whose predicate is true returns whether now - first >= hold_s
\* (false before, true from then on), and an evaluation whose predicate is
\* false returns false and clears the stored time.
C5_HoldContiguous ==
    hold.call = "__call__"
       => /\ hold.p => /\ hold.first # NoTime
                       /\ hold.ret = (hold.now - hold.first >= hold.hold_s)
                       /\ hold.t0 = hold.first
          /\ ~hold.p => (~hold.ret /\ hold.t0 = NoTime)

\* The predicate was true, went false, and has been true again for less
\* than hold_s although the clock is past hold_s: the Hold answers false.
C5_Witness ==
    /\ hold.call = "__call__" /\ hold.p /\ ~hold.ret
    /\ hold.broken
    /\ hold.hold_s > 0
    /\ hold.now >= hold.hold_s + 1
    /\ hold.now - hold.first < hold.hold_s

(***************************************************************************)
(* Properties of the worker.                                               *)
(***************************************************************************)
PsuOff == [v |-> 0, i |-> 0, out |-> FALSE]

TargetsZero(t) == t.pump.value = 0 /\ t.starter.value = 0 /\ t.psu = PsuOff

WorkerOff(w) ==
    w.pump_target.value = 0 /\ w.starter_target.value = 0 /\ w.psu_target = PsuOff

\* C1: whenever CycleFSM.tick or CycleFSM.stop has left a machine in Stop
\* or Fault, the targets buffer holds pump 0, starter 0 and PSU 0 V, 0 A,
\* off, whatever the on_tick of the state before wrote in that tick; stop
\* on any machine ends in Stop with these targets; and the worker's
\* command state is zero/off at the end of the worker tick that finds its
\* machine in a terminal state.
C1_TerminalTargetsZero ==
    /\ machine # NoFsm =>
          /\ machine.fsm.current \in {"Stop", "Fault"}
                => TargetsZero(machine.fsm.targets)
          /\ \A rpm \in BenchRpm, reason \in StopReasons :
                LET m == bench_stop(machine, rpm, reason)
                IN  m.fsm.current = "Stop" /\ TargetsZero(m.fsm.targets)
    /\ self.fsm # NoFsm =>
          /\ self.fsm.current \in {"Stop", "Fault"} =>
                /\ TargetsZero(self.fsm.targets)
                /\ self.slot = "_tick" => WorkerOff(self)
          /\ \A reason \in StopReasons :
                LET g == stop(self.fsm, _make_inputs(self, Now), reason)
                IN  g.current = "Stop" /\ TargetsZero(g.targets)

\* The tick that timed Ignition out: its on_tick wrote duty, valve and pump
\* targets, the switch to Fault in the same tick zeroed them.
C1_Witness ==
    /\ machine # NoFsm
    /\ machine.started /\ machine.call = "tick"
    /\ machine.fsm.current = "Fault"
    /\ machine.fsm.last_state = "Ignition"
    /\ machine.fsm.last_transition_reason = timeout_reason(machine.fsm, "Ignition")
    /\ machine.inp.state_t >= valve_switch_s

\* C2: cmd_stop_all, from any state, leaves pump target 0, starter duty 0,
\* PSU output off, no cyclogram and no profile playback; the tick that
\* follows writes no other pump or starter command than zero and no PSU
\* output-on.
C2_StopAllForcesOff ==
    \A fail \in StopFails :
       LET w1 == cmd_stop_all(self, fail)
       IN  /\ w1.pump_target.value = 0
           /\ w1.starter_target = [mode |-> "duty", value |-> 0]
           /\ ~w1.psu_target.out
           /\ w1.fsm = NoFsm
           /\ ~w1.pump_prof_active
           /\ \A F \in FaultSets(w1), rd \in Reads(w1) :
                 LET w == _tick(w1, F, rd)
                 IN  /\ w.sent.pump.value = 0
                     /\ w.sent.starter.value = 0
                     /\ \A k \in DOMAIN w.sent.psu : ~w.sent.psu[k].out
                     /\ WorkerOff(w)

\* cmd_stop_all came while the cooldown cyclogram was in Cooling (starter
\* turning) and wrote the starter's zero command.
C2_Witness ==
    /\ self.slot = "cmd_stop_all"
    /\ self.fsm_prev_state = "Cooling"
    /\ self.last_starter_rpm >= starter_min_rpm
    /\ self.sent.starter = [op |-> "set_duty", value |-> 0]
    /\ self.fsm = NoFsm

ManualPump(w) ==
    {cmd_set_pump_rpm(w, rpm) : rpm \in ManualPumpRpm}
    \cup {cmd_set_pump_duty(w, duty) : duty \in ManualDuty}

OtherManual(w) ==
    {cmd_set_starter_duty(w, duty) : duty \in ManualDuty}
    \cup {cmd_set_starter_rpm(w, rpm) : rpm \in ManualStarterRpm}
    \cup {cmd_psu_set_vi(w, vi.v, vi.i) : vi \in ManualVI}
    \cup {cmd_psu_output(w, on) : on \in BOOLEAN}

C8_RunningKeepsPumpTarget ==
    (self.fsm # NoFsm /\ self.fsm.current = "Running")
    => \A F \in FaultSets(self), rd \in Reads(self) :
          LET w == _tick(self, F, rd)
          IN  /\ w.pump_target = self.pump_target
              /\ w.fsm # NoFsm
              /\ w.fsm.current = "Running"
              /\ (w.pump_conn /\ self.pump_target.mode = "rpm")
                    => w.sent.pump =
                          [op |-> "set_rpm_mech", value |-> self.pump_target.value]

LinkErrors ==
    {"pump disconnected", "starter disconnected", "PSU read error", "PSU cmd error"}

\* The tick that ran last lost a link while a cyclogram was active.
LinkLost(w) ==
    /\ w.slot = "_tick"
    /\ w.fsm # NoFsm
    /\ \E k \in DOMAIN w.error : w.error[k] \in LinkErrors

\* C3 (of the cyclograms only the cooldown is ever active in the worker,
\* see cmd_run_cycle: the states of the startup graph are not exercised):
\* when a tick loses a link while a cyclogram is active, then, with
\* ticks going on and no command, the pump, starter and PSU command state
\* becomes zero/off.
C3_FailClosedOnDisconnect == LinkLost(self) ~> WorkerOff(self)

\* C11: when cmd_run_cycle has run with both profiles loaded, a cyclogram is
\* active and running, in Starter, entered at this moment, and its targets
\* are starter duty starter_duty_start, pump rpm 0 and the PSU off.
C11_RunCycleStarts ==
    (self.slot = "cmd_run_cycle" /\ self.error = << >>)
    => /\ self.fsm # NoFsm
       /\ self.fsm.kind = "startup"
       /\ self.fsm.running
       /\ self.fsm.current = "Starter"
       /\ state_time(self.fsm, Now) = 0
       /\ self.fsm.targets.starter = [mode |-> "duty", value |-> starter_duty_start]
       /\ self.fsm.targets.pump = [mode |-> "rpm", value |-> 0]
       /\ self.fsm.targets.psu = PsuOff

\* C12: cmd_run_cycle with a profile missing or empty starts no cyclogram
\* (fsm is what it was), emits an error, and changes neither the pump,
\* starter and PSU targets nor the activity of the pump-profile playback.
C12_ConfigFaultNoEffect ==
    LET w == cmd_run_cycle(self, NoProfile)
    IN  /\ w.fsm = self.fsm
        /\ w.error # << >>
        /\ w.pump_target = self.pump_target
        /\ w.starter_target = self.starter_target
        /\ w.psu_target = self.psu_target
        /\ w.pump_prof_active = self.pump_prof_active

\* The valve target ignition_tick / fuelramp_tick give at state time t: the
\* first voltage during the initial window of Ignition, the second after.
ValveOn(st, t) ==
    [v |-> IF st = "Ignition" /\ t < valve_switch_s THEN valve_v1 ELSE valve_v2,
     i |-> valve_i, out |-> TRUE]

\* C13: in Ignition and FuelRamp a tick that stays in the state leaves the
\* PSU target at the first voltage, output on, during the initial window
\* and at the second voltage, output on, after it, until a tick has seen
\* the starter rpm at the state's threshold; every later tick of the state
\* leaves the PSU target output off.
C13_ValveSchedule ==
    (/\ machine # NoFsm
     /\ machine.started
     /\ machine.fsm.current \in {"Ignition", "FuelRamp"})
    => \A rpm \in BenchRpm :
          LET m == bench_tick(machine, rpm)
          IN  m.fsm.current = machine.fsm.current
              => IF machine.since # NoTime
                 THEN ~m.fsm.targets.psu.out
                 ELSE m.fsm.targets.psu = ValveOn(m.fsm.current, m.inp.state_t)

\* What C14 says of one command and of one tick.
CoolingStep ==
    /\ \A duty \in ManualDuty :
          LET w == cmd_cooling_cycle(self, duty)
          IN  /\ w.fsm.current = "Cooling" /\ w.fsm.running
              /\ state_time(w.fsm, Now) = 0
              /\ w.fsm.targets.starter =
                    [mode |-> "duty", value |-> IF duty > DutyOne THEN DutyOne ELSE duty]
              /\ w.fsm.targets.pump = [mode |-> "rpm", value |-> 0]
              /\ w.fsm.targets.psu = PsuOff
    /\ (self.fsm # NoFsm /\ self.fsm.current = "Cooling")
          => \A F \in FaultSets(self), rd \in Reads(self) :
                LET w == _tick(self, F, rd)
                IN  IF state_time(self.fsm, Now) < duration_s
                    THEN w.fsm.current = "Cooling" /\ w.fsm.running
                    ELSE /\ w.fsm.current = "Stop" /\ ~w.fsm.running
                         /\ TargetsZero(w.fsm.targets)
                         /\ WorkerOff(w)

InCooling == self.fsm # NoFsm /\ self.fsm.current = "Cooling"

InStop == self.fsm # NoFsm /\ self.fsm.current = "Stop"

\* C14: cmd_cooling_cycle starts the cooldown in Cooling with the starter at
\* the requested duty clamped to [0, 1], pump rpm 0 and the PSU off; a tick
\* with state_t below the duration stays in Cooling; the first tick with
\* state_t at or past the duration enters Stop with all outputs zero/off
\* and running false; and with the timer firing the cooldown reaches Stop.
C14_CoolingRunsToStop == [](CoolingStep) /\ (InCooling ~> InStop)

\* The cooldown asked for with a duty above 1 has run at duty 1 and a tick
\* has ended it.
C14_Witness ==
    /\ InStop
    /\ self.slot = "_tick"
    /\ self.fsm.last_state = "Cooling"
    /\ self.fsm.last_transition_reason = "Cooling done"
    /\ self.fsm.duty = DutyOne
    /\ self.sent.starter = [op |-> "set_duty", value |-> 0]

(***************************************************************************)
(* Properties of the interpolation functions.                              *)
(***************************************************************************)
Called == probe # NoProbe /\ probe.call \in {"interp_profile", "interp_time_value"}

Between(y, a, b) == (a <= y /\ y <= b) \/ (b <= y /\ y <= a)

\* The result of the last call is what C16 says of a profile with samples
\* (t, rpm) at the argument x.
Interpolates(t, rpm, x, y) ==
    LET n == Len(t)
    IN  /\ x <= t[1] => y = rpm[1]
        /\ x >= t[n] => y = rpm[n]
        /\ \A k \in 2..n :
              (t[k - 1] < x /\ x < t[k])
              => /\ (y - rpm[k - 1]) * (t[k] - t[k - 1])
                       = (x - t[k - 1]) * (rpm[k] - rpm[k - 1])
                 /\ Between(y, rpm[k - 1], rpm[k])

Repeatable ==
    probe.y = IF probe.call = "interp_profile"
              THEN interp_profile(probe.profile, probe.x)
              ELSE interp_time_value(Points(probe.profile), probe.x)

\* C16 as stated: on every non-empty profile with non-decreasing times the
\* result is the first value at or before the first sample time, the last
\* value at or after the last sample time, and the value in proportion
\* between two consecutive samples.
C16_InterpolateAsStated ==
    Called => Interpolates(probe.profile.t, probe.profile.rpm, probe.x, probe.y)

\* C16, amended: the same on every non-empty profile with non-decreasing
\* times whose first sample time is before its last (or which has a single
\* sample); (0, 1000), (5 s, 3000) at 2.5 s gives 2000; and a repeated call
\* with the same arguments gives the same result.
C16_Interpolate ==
    Called =>
       LET t == probe.profile.t
       IN  /\ (Len(t) = 1 \/ t[1] < t[Len(t)])
                 => Interpolates(t, probe.profile.rpm, probe.x, probe.y)
           /\ (probe.profile = ScenarioC /\ probe.x = 5) => probe.y = 2000
           /\ Repeatable

\* Scenario C was evaluated at 2.5 s.
C16_Witness ==
    /\ Called
    /\ probe.call = "interp_profile"
    /\ probe.profile = ScenarioC
    /\ probe.x = 5
    /\ probe.y = 2000

\* C17: where two consecutive sample times are equal, the functions
\* evaluated at that time give the later sample's value, for every position
\* of the pair, the first included.
C17_DegenerateLater ==
    Called =>
       \A k \in 2..Len(probe.profile.t) :
          (probe.profile.t[k - 1] = probe.profile.t[k] /\ probe.x = probe.profile.t[k])
          => probe.y = probe.profile.rpm[k]


(***************************************************************************)
(* Properties of two ticks with the same inputs.                           *)
(***************************************************************************)
\* What a caller reads after a tick: the three targets and the state.
Outcome(f) ==
    [pump |-> f.targets.pump, starter |-> f.targets.starter, psu |-> f.targets.psu,
     state |-> f.current]

SecondTickSame(f, inp) == Outcome(tick(tick(f, inp), inp)) = Outcome(tick(f, inp))

\* The tick switches the state.
Switches(f, inp) == tick(f, inp).current # f.current

\* C18: tick called twice in succession with identical inputs leaves, after
\* the second call, the same targets and the same current state as after
\* the first, from every reachable machine and with every inputs value.
C18_TickIdempotent ==
    \A rpm \in BenchRpm : SecondTickSame(machine.fsm, bench_inputs(machine.fsm, rpm))


(***************************************************************************)
(* Properties of the manual commands.                                      *)
(***************************************************************************)
ManualStarter(w) ==
    {cmd_set_starter_duty(w, duty) : duty \in ManualDuty}
    \cup {cmd_set_starter_rpm(w, rpm) : rpm \in ManualStarterRpm}

\* C19: a manual command changes only the targets of its channel: a pump
\* command leaves the starter and PSU targets, a starter command the pump
\* and PSU targets, set-V/I the pump and starter targets and the output
\* flag, set-output the pump and starter targets and the V/I setpoints,
\* with or without a cyclogram or a playback active.
C19_ManualFrame ==
    /\ \A w \in ManualPump(self) :
          w.starter_target = self.starter_target /\ w.psu_target = self.psu_target
    /\ \A w \in ManualStarter(self) :
          w.pump_target = self.pump_target /\ w.psu_target = self.psu_target
    /\ \A vi \in ManualVI :
          LET w == cmd_psu_set_vi(self, vi.v, vi.i)
          IN  /\ w.pump_target = self.pump_target
              /\ w.starter_target = self.starter_target
              /\ w.psu_target.out = self.psu_target.out
    /\ \A on \in BOOLEAN :
          LET w == cmd_psu_output(self, on)
          IN  /\ w.pump_target = self.pump_target
              /\ w.starter_target = self.starter_target
              /\ w.psu_target.v = self.psu_target.v
              /\ w.psu_target.i = self.psu_target.i

\* A starter duty command arrived while the playback was driving the pump:
\* the playback is over and the pump target is the profile's value still.
C19_Witness ==
    /\ self.slot = "cmd_set_starter_duty"
    /\ self.starter_target.value \in ManualDuty
    /\ ~self.pump_prof_active
    /\ self.pump_prof \in RunProfiles
    /\ self.pump_target = [mode |-> "rpm", value |-> self.pump_prof.rpm[1]]


(***************************************************************************)
(* Properties of a tick that meets a transport error.                      *)
(***************************************************************************)
Emitted(w, msg) == \E k \in DOMAIN w.error : w.error[k] = msg

\* The operations of F that the tick starting in w calls on the VESC links:
\* the read of an open link, and the send unless the read has closed it.
PumpOps == {"pump_read", "pump_send", "pump_request"}

StarterOps == {"starter_read", "starter_send", "starter_request"}

PumpRaises(w, F) == w.pump_conn /\ F \cap PumpOps # {}

StarterRaises(w, F) == w.starter_conn /\ F \cap StarterOps # {}

\* The worker as the "PSU apply" step of the tick finds it.
before_psu_apply(w, F, rd) ==
    LET w1 == read_psu(read_starter(read_pump(begin(w, "_tick"), F), F, rd), F, rd)
    IN  tick_cyclogram(tick_pump_profile(w1, Now), Now)

\* The PSU operations of F the tick calls: the poll when it is due, and the
\* write of a V/I setpoint or of an output flag that differs from the one
\* applied, when the setpoints are dirty and their write is due.
PsuRaises(w, F, rd) ==
    \/ w.psu_conn /\ rd.psu = "due" /\ "psu_read" \in F
    \/ LET u == before_psu_apply(w, F, rd)
           needVI == u.psu_applied.v # u.psu_target.v \/ u.psu_applied.i # u.psu_target.i
           needOut == u.psu_applied.out # Bit(u.psu_target.out)
       IN  /\ u.psu_conn /\ u.psu_dirty /\ Now >= u.psu_next_cmd
           /\ \/ needVI /\ "psu_set_vi" \in F
              \/ ~needVI /\ needOut /\ "psu_output" \in F

\* C20: when an operation on a device raises a transport error in a tick,
\* at the end of the tick that device is disconnected, its cached
\* measurement is zeroed and an error has been emitted; a device none of
\* whose operations raised keeps its connection state; the tick runs to its
\* end (the links still open get their commands, nothing is raised out of
\* the slot) and the timer stays active for the ticks to come.
C20_TransportFault ==
    self.timer_active =>
       \A F \in FaultSets(self), rd \in Reads(self) :
          LET w == _tick(self, F, rd)
          IN  /\ PumpRaises(self, F) =>
                    /\ ~w.pump_conn /\ w.last_pump_rpm = 0
                    /\ Emitted(w, "pump disconnected")
              /\ StarterRaises(self, F) =>
                    /\ ~w.starter_conn /\ w.last_starter_rpm = 0
                    /\ Emitted(w, "starter disconnected")
              /\ PsuRaises(self, F, rd) =>
                    /\ ~w.psu_conn /\ w.last_psu = {}
                    /\ Emitted(w, "PSU read error") \/ Emitted(w, "PSU cmd error")
              /\ F \cap PumpOps = {} => w.pump_conn = self.pump_conn
              /\ F \cap StarterOps = {}
                    => w.starter_conn = self.starter_conn
              /\ F \cap {"psu_read", "psu_set_vi", "psu_output"} = {}
                    => w.psu_conn = self.psu_conn
              /\ w.pump_conn => w.sent.pump = vesc_command(w.pump_target)
              /\ w.starter_conn => w.sent.starter = vesc_command(w.starter_target)
              /\ w.slot = "_tick" /\ w.raised = None /\ w.timer_active

\* A tick in which the pump link failed: the pump is disconnected with its
\* measurement zeroed, the error is out, and the starter, still connected
\* with a reading, was sent its nonzero target in the same tick.
C20_Witness ==
    /\ self.slot = "_tick"
    /\ Emitted(self, "pump disconnected")
    /\ ~self.pump_conn /\ self.last_pump_rpm = 0
    /\ self.starter_conn /\ self.last_starter_rpm > 0
    /\ self.starter_target.value > 0
    /\ self.sent.starter = vesc_command(self.starter_target)


(***************************************************************************)
(* Properties of the CSV logger in the tick.                               *)
(***************************************************************************)
\* The tick starting in w with faults F reaches the CSV section with a row
\* due, and the append or the flush fails.
CsvFails(w, F) ==
    /\ w.logging_on /\ w.logger_open /\ Now >= w.next_log_write
    /\ F \cap {"csv_write", "csv_flush"} # {}

\* C21: a tick whose append or flush fails emits an error event and leaves
\* logging disabled: from then on no tick attempts an append or emits a
\* CSV error, until cmd_ready.
C21_LoggingOffAfterFault ==
    self.timer_active =>
       \A F \in FaultSets(self), rd \in Reads(self) :
          CsvFails(self, F) =>
             LET w == _tick(self, F, rd)
             IN  /\ Emitted(w, "CSV error")
                 /\ ~w.logging_on
                 /\ \A G \in FaultSets(w), r \in Reads(w) : _tick(w, G, r).csv = "none"


(***************************************************************************)
(* Properties of the PSU dispatch.                                         *)
(***************************************************************************)
ManualPsu(w) ==
    {cmd_psu_set_vi(w, vi.v, vi.i) : vi \in ManualVI}
    \cup {cmd_psu_output(w, on) : on \in BOOLEAN}

\* What can come between two ticks: nothing, a manual PSU command, or the
\* start of the cooldown cyclogram (whose first tick sets the PSU target).
BetweenTicks(w) ==
    {w} \cup ManualPsu(w) \cup {cmd_cooling_cycle(w, duty) : duty \in ManualDuty}

\* The tick starting in w sends a PSU command although the target it finds
\* equals the values applied last.
SendsUnchanged(w, F, rd) ==
    LET u == before_psu_apply(w, F, rd)
    IN  /\ _tick(w, F, rd).sent.psu # << >>
        /\ u.psu_applied = [v |-> u.psu_target.v, i |-> u.psu_target.i,
                            out |-> Bit(u.psu_target.out)]

\* C22: a tick sends a PSU command only when the target differs from the
\* values applied last, and a tick that sends one is not followed by
\* another that sends one before PsuCmdSpacing has passed, whatever manual
\* PSU command or cyclogram comes between them.
C22_PsuRateLimit ==
    (self.timer_active /\ self.psu_conn) =>
       \A F \in FaultSets(self), rd \in Reads(self) :
          LET w == _tick(self, F, rd)
          IN  /\ ~SendsUnchanged(self, F, rd)
              /\ w.sent.psu # << >> =>
                    \A u \in BetweenTicks(w), d \in 0..(PsuCmdSpacing - 1) :
                       _tick(elapse(u, d), {}, rd).sent.psu = << >>


(***************************************************************************)
(* Properties of the commands a tick sends to the actuators.               *)
(***************************************************************************)
\* The command of target t is the one of its mode.
OfMode(cmd, t) ==
    /\ cmd.op = (IF t.mode = "rpm" THEN "set_rpm_mech" ELSE "set_duty")
    /\ cmd.value = (IF t.mode = "rpm" THEN t.value ELSE _clamp01(t.value))

C24_ShutdownCompletes ==
    \A fail \in StopFails :
       LET w == worker_stop(self, fail)
           pOk == ~(self.pump_conn /\ fail = "pump")
           sOk == pOk /\ ~(self.starter_conn /\ fail = "starter")
           uOk == sOk /\ ~(self.psu_conn /\ fail = "psu")
       IN  /\ ~w.timer_active /\ w.fsm = NoFsm /\ ~w.pump_prof_active
           /\ ~w.pump_conn /\ ~w.starter_conn /\ ~w.psu_conn
           /\ ~w.logging_on /\ ~w.logger_open
           /\ w.raised = None
           /\ (self.pump_conn /\ pOk) => w.sent.pump = [op |-> "set_rpm_mech", value |-> 0]
           /\ (self.starter_conn /\ sOk) => w.sent.starter = [op |-> "set_duty", value |-> 0]
           /\ (self.psu_conn /\ uOk) => w.sent.psu # << >>

\* The worker was stopped with the timer running, the cooldown cyclogram
\* last seen in Cooling and the starter link open: the starter got its zero
\* command before its link was released, and everything is off.
C24_Witness ==
    /\ self.slot = "worker_stop"
    /\ self.fsm_prev_state = "Cooling"
    /\ self.sent.starter = [op |-> "set_duty", value |-> 0]
    /\ ~self.starter_conn /\ ~self.timer_active /\ self.fsm = NoFsm


(***************************************************************************)
(* Properties of the playback of the pump profile.                         *)
(***************************************************************************)
\* A tick with the playback active and no cyclogram: past the end time of
\* the profile the playback is over, before it the pump target is the
\* profile's rpm at the elapsed time.
PlaybackStep ==
    (self.timer_active /\ self.pump_prof_active /\ self.fsm = NoFsm) =>
       \A F \in FaultSets(self), rd \in Reads(self) :
          LET w == _tick(self, F, rd)
              elapsed == Now - self.pump_prof_t0
          IN  IF elapsed >= end_time(self.pump_prof)
              THEN ~w.pump_prof_active
              ELSE /\ w.pump_prof_active
                   /\ w.pump_target =
                         [mode |-> "rpm", value |-> interp_profile(self.pump_prof, elapsed)]

\* C25: each tick of an active playback sets the pump target from the
\* profile, the first tick at or past the profile's end time ends the
\* playback, and so every started playback, of a single-sample profile
\* too, comes to its end.
C25_PlaybackStops ==
    /\ [](PlaybackStep)
    /\ self.pump_prof_active ~> ~self.pump_prof_active


(***************************************************************************)
(* Properties of the re-entrancy guard of the tick.                        *)
(***************************************************************************)
\* C26: an invocation of the timer slot while a tick is under way returns
\* without reading a device or changing anything, and the in-tick flag is
\* set exactly while a tick is under way: it is clear after every tick,
\* one whose body raised included.
C26_NoOverlap ==
    /\ self.in_tick <=> probe = InTick
    /\ self.in_tick => \A F \in FaultSets(self), rd \in Reads(self) :
                          _tick(self, F, rd) = self
    /\ (probe = NoProbe /\ self.slot = "_tick" /\ self.raised # None) => ~self.in_tick

\* The timer slot was invoked an odd number of times while a tick, started
\* with the starter target nonzero, is still under way.
C26_Witness ==
    /\ probe = InTick /\ self.in_tick /\ beat
    /\ self.starter_conn /\ self.starter_target.value > 0


(***************************************************************************)
(* The three cyclogram graphs on the bench: the startup graph and the      *)
(* cooldown graph of cyclogram_startup.py and the startup graph of         *)
(* cyclograms.py, each driven directly.                                    *)
(***************************************************************************)
VariantsInit ==
    /\ machine \in {MachineInit(build_startup_fsm(p)) : p \in RunProfiles}
                   \cup {MachineInit(build_cooling_fsm(d)) : d \in ManualDuty}
                   \cup {MachineInit(cyclograms_build_startup_fsm)}
    /\ self = WorkerInit /\ ncmd = 0 /\ hold = NoTime /\ probe = NoProbe /\ beat = FALSE

SpecVariants == VariantsInit /\ [][FsmNext]_vars

(***************************************************************************)
(* Properties of the running flag.                                         *)
(***************************************************************************)
\* The last call on the machine was tick.
Ticked(m) == m.call = "tick"

\* C27: in each of the three graphs Stop and Fault are terminal: after a
\* tick that ends in Stop or in Fault the running flag is false; and the
\* flag is true after start and after a tick that ends in any other state.
C27_TerminalStates ==
    /\ (Ticked(machine) /\ machine.fsm.current \in {"Stop", "Fault"})
          => ~machine.fsm.running
    /\ machine.call = "start" => machine.fsm.running
    /\ (Ticked(machine) /\ machine.fsm.current \notin {"Stop", "Fault"})
          => machine.fsm.running


(***************************************************************************)
(* Properties of the timeout step and of the guard scan of tick.           *)
(***************************************************************************)
\* The state f is in has a timeout, and it is due on inp.
TimeoutDue(f, inp) ==
    /\ timeout_s(f, f.current) # NoTime /\ on_timeout(f, f.current) # None
    /\ inp.state_t >= timeout_s(f, f.current)

\* Some guard of the state f is in would be true on inp.
GuardTrue(f, inp) ==
    \E k \in 1..Len(transitions(f, f.current)) :
        cond_call(f, transitions(f, f.current)[k].cond, inp).ret

\* C28: a tick whose state_t is at or past the timeout of the active state
\* S (equal to it included) ends in the timeout target, entered at that
\* tick with the timeout's reason, and no guard of S has been called: the
\* Holds are as before, whether or not a guard of S would have been true;
\* a tick whose state_t is below the timeout does not take the timeout.
C28_TimeoutFirst ==
    \A rpm \in BenchRpm :
        LET f == machine.fsm
            inp == bench_inputs(f, rpm)
            g == tick(f, inp)
        IN  /\ TimeoutDue(f, inp) =>
                 /\ g.current = on_timeout(f, f.current)
                 /\ g.last_state = f.current
                 /\ g.enter = inp.now
                 /\ g.last_transition_reason = timeout_reason(f, f.current)
                 /\ g.holds = f.holds
            /\ (timeout_s(f, f.current) # NoTime /\ ~TimeoutDue(f, inp)) =>
                 /\ g.current # on_timeout(f, f.current)
                 /\ g.last_transition_reason # timeout_reason(f, f.current)

\* A tick at state_t equal to the timeout of Starter, with the Hold of
\* Starter's guard satisfied on the same inputs, has ended in Fault.
C28_Witness ==
    /\ machine.call = "tick" /\ machine.fsm.kind = "startup"
    /\ machine.fsm.last_state = "Starter" /\ machine.fsm.current = "Fault"
    /\ machine.inp.state_t = starter_timeout_s
    /\ machine.inp.starter_rpm >= starter_min_rpm
    /\ machine.fsm.holds.starter_ready # NoTime
    /\ machine.inp.now - machine.fsm.holds.starter_ready >= starter_min_hold_s


(***************************************************************************)
(* The chain graph on the bench.                                           *)
(***************************************************************************)
ChainInit ==
    /\ machine = MachineInit(CycleFSM("chain", NoProfile, 0))
    /\ self = WorkerInit /\ ncmd = 0 /\ hold = NoTime /\ probe = NoProbe /\ beat = FALSE

SpecChain == ChainInit /\ [][FsmNext]_vars

\* C29: a tick in which the timeout of the active state fires goes on to
\* the guards of the timeout target with the same inputs, whose state_t is
\* still the time spent in the state that timed out: if such a guard is
\* true the machine switches a second time in that tick and ends in that
\* guard's target with its on_enter run; if none is, it ends in the timeout
\* target with that state's on_enter run.
C29_ScanAfterTimeout ==
    \A rpm \in BenchRpm :
        LET f == machine.fsm
            inp == bench_inputs(f, rpm)
            g == tick(f, inp)
        IN  (f.current = "First" /\ inp.state_t >= chain_timeout_s) =>
               IF inp.state_t >= chain_dwell_s /\ rpm >= chain_rpm_lo
               THEN /\ g.current = "Third" /\ g.last_state = "Second"
                    /\ g.last_transition_reason = "late"
                    /\ g.enter = inp.now
                    /\ g.targets = [stop_all(f.targets) EXCEPT
                                       !.meta = [transition_reason |-> "late"]]
                    /\ ~g.running
               ELSE /\ g.current = "Second" /\ g.last_state = "First"
                    /\ g.last_transition_reason = "timeout"
                    /\ g.enter = inp.now
                    /\ g.targets = [set_pump_rpm(f.targets, 200) EXCEPT
                                       !.meta = [transition_reason |-> "timeout"]]
                    /\ g.running = f.running

\* A started machine whose tick found First timed out has ended in Third by
\* way of Second.
C29_Witness ==
    /\ machine.started /\ machine.call = "tick" /\ machine.fsm.kind = "chain"
    /\ machine.inp.state_t >= chain_timeout_s
    /\ machine.inp.starter_rpm >= chain_rpm_lo
    /\ machine.fsm.current = "Third" /\ machine.fsm.last_state = "Second"
    /\ machine.fsm.last_transition_reason = "late"

\* The indices of the guards of the state f is in that are true on inp.
TrueGuards(f, inp) ==
    {k \in 1..Len(transitions(f, f.current)) :
        cond_call(f, transitions(f, f.current)[k].cond, inp).ret}

\* C30: a tick without a timeout takes the transition of lowest index whose
\* guard is true and no other: it ends in that transition's target with
\* that transition's reason, the guards of the target are not scanned in
\* that tick, and the Hold of a guard declared after the taken one is as it
\* was; with no guard true the state stays.
C30_FirstGuardWins ==
    \A rpm \in BenchRpm :
        LET f == machine.fsm
            inp == bench_inputs(f, rpm)
            g == tick(f, inp)
            trs == transitions(f, f.current)
            K == TrueGuards(f, inp)
            k0 == CHOOSE k \in K : \A j \in K : k <= j
        IN  (~TimeoutDue(f, inp) /\ ~on_tick_raises(f, f.current)) =>
               IF K = {}
               THEN g.current = f.current /\ g.last_transition_reason = None
               ELSE /\ g.current = trs[k0].next_state
                    /\ g.last_state = f.current
                    /\ g.last_transition_reason = trs[k0].reason
                    /\ g.enter = inp.now
                    /\ (f.current = "First" /\ k0 = 1)
                          => g.holds.first_held = f.holds.first_held

\* A tick of First with both guards true has ended in Second: the Hold of
\* the second guard had been satisfied and still carries its start time,
\* and the guard of Second, true on the same inputs, was not taken.
C30_Witness ==
    /\ machine.started /\ machine.call = "tick" /\ machine.fsm.kind = "chain"
    /\ machine.fsm.current = "Second" /\ machine.fsm.last_state = "First"
    /\ machine.fsm.last_transition_reason = "high"
    /\ machine.inp.state_t < chain_timeout_s
    /\ machine.inp.state_t >= chain_dwell_s
    /\ machine.inp.starter_rpm >= chain_rpm_hi
    /\ machine.fsm.holds.first_held # NoTime
    /\ machine.inp.now - machine.fsm.holds.first_held >= chain_hold_s


(***************************************************************************)
(* Properties of the PSU dispatch.                                         *)
(***************************************************************************)
PsuOps == {"psu_read", "psu_set_vi", "psu_output"}

SetVI(t) == [op |-> "set_vi", v |-> t.v, i |-> t.i, out |-> FALSE]

SetOutput(t) == [op |-> "output", v |-> 0, i |-> 0, out |-> t.out]

\* C31: a tick that applies the PSU target, with no PSU operation failing,
\* writes the V/I setpoints only if they differ from the applied ones and
\* the output flag only if it differs from the applied one: the output
\* alone when only the output changed, the setpoints alone when only they
\* changed, the setpoints and then the output when both changed.
C31_PsuPartsApart ==
    self.timer_active =>
       \A F \in FaultSets(self), rd \in Reads(self) :
          LET u == before_psu_apply(self, F, rd)
              w == _tick(self, F, rd)
              t == u.psu_target
              vi == u.psu_applied.v # t.v \/ u.psu_applied.i # t.i
              out == u.psu_applied.out # Bit(t.out)
          IN  (u.psu_conn /\ u.psu_dirty /\ F \cap PsuOps = {}) =>
                 w.sent.psu = (IF vi THEN << SetVI(t) >> ELSE << >>)
                              \o (IF out THEN << SetOutput(t) >> ELSE << >>)

\* A tick has written the output flag alone: the setpoints applied earlier
\* are those of the operator and still the target.
C31_Witness ==
    /\ self.slot = "_tick" /\ self.psu_conn
    /\ Len(self.sent.psu) = 1 /\ self.sent.psu[1].op = "output"
    /\ self.sent.psu[1].out
    /\ self.psu_applied.v > 0 /\ self.psu_applied.v = self.psu_target.v


(***************************************************************************)
(* Properties of the stage order of the startup cyclogram.                 *)
(***************************************************************************)
\* The steps a tick may take in the startup graph.
StageEdges ==
    {<<"Starter", "Ignition">>, <<"Ignition", "FuelRamp">>, <<"FuelRamp", "Running">>}
    \cup {<<s, "Fault">> : s \in {"Starter", "Ignition", "FuelRamp"}}

\* C32: the current state of a startup machine is always one of the states
\* of its table; a tick leaves the state as it is or takes one step of
\* Starter -> Ignition -> FuelRamp -> Running or a step from one of the
\* first three to Fault, never two stages at once; a machine in Running
\* came there from FuelRamp.
C32_StageOrder ==
    machine.fsm.kind = "startup" =>
       /\ machine.fsm.current \in StateNames(machine.fsm)
       /\ \A rpm \in BenchRpm :
             LET f == machine.fsm
                 g == tick(f, bench_inputs(f, rpm))
             IN  /\ g.current \in StateNames(f)
                 /\ g.current = f.current \/ <<f.current, g.current>> \in StageEdges
       /\ machine.fsm.current = "Running" => machine.fsm.last_state = "FuelRamp"

\* A started machine has just entered Running.
C32_Witness ==
    /\ machine.started /\ machine.call = "tick" /\ machine.switched
    /\ machine.fsm.kind = "startup" /\ machine.fsm.current = "Running"
    /\ machine.fsm.running


(***************************************************************************)
(* Properties of a worker whose cyclogram has ended.                       *)
(***************************************************************************)
\* The worker, or on the bench a worker as constructed that holds the
\* machine of the bench as its cyclogram.
Holder == IF machine = NoFsm THEN self ELSE [self EXCEPT !.fsm = machine.fsm]

\* C33: a worker tick that finds the cyclogram in Stop or Fault leaves it
\* in that state, and after the tick the pump target and the starter
\* target are 0 and the PSU target is off, whatever the devices do.
C33_TerminalAbsorbing ==
    (Holder.fsm # NoFsm /\ Holder.fsm.kind \in {"startup", "cooling"}
       /\ Holder.fsm.current \in {"Stop", "Fault"}) =>
       \A F \in FaultSets(Holder), rd \in Reads(Holder) :
          LET w == _tick(Holder, F, rd)
          IN  /\ w.fsm # NoFsm /\ w.fsm.current = Holder.fsm.current
              /\ w.pump_target.value = 0
              /\ w.starter_target.value = 0
              /\ ~w.psu_target.out /\ w.psu_target.v = 0 /\ w.psu_target.i = 0

\* The worker has ticked with its cyclogram already in Stop, the starter
\* link open.
C33_Witness ==
    /\ self.slot = "_tick" /\ self.fsm # NoFsm /\ self.starter_conn
    /\ self.fsm.current = "Stop" /\ self.fsm_prev_state = "Stop"
    /\ self.fsm.last_transition_reason = None

(***************************************************************************)
(* A started startup machine ticked by the worker's timer and nothing      *)
(* else: between two ticks 1..MaxDt units of time pass, every tick reads   *)
(* some starter RPM.  age is the time since start().                       *)
(***************************************************************************)
StartupInit ==
    /\ machine \in {[bench_start(MachineInit(build_startup_fsm(p)), rpm)
                        EXCEPT !.age = 0] : p \in RunProfiles, rpm \in BenchRpm}
    /\ self = WorkerInit /\ ncmd = 0 /\ hold = NoTime /\ probe = NoProbe /\ beat = FALSE

StartupTick ==
    /\ \E d \in 1..MaxDt, rpm \in BenchRpm :
          machine' = bench_tick(bench_elapse(machine, d), rpm)
    /\ beat' = ~beat
    /\ UNCHANGED <<self, ncmd, hold, probe>>

StartupTimer == beat' = ~beat

SpecStartup == StartupInit /\ [][StartupTick]_vars /\ WF_beat(StartupTimer)

Transient == {"Starter", "Ignition", "FuelRamp"}

\* C34: with the ticks going on and no command, a started startup machine
\* that a tick leaves in Starter, Ignition or FuelRamp has been in that
\* state for less than the state's timeout and has been started for less
\* than the sum of the three timeouts; the tick that takes it out of these
\* states comes less than one tick period after that sum; and it reaches
\* Running or Fault, whatever starter RPM the ticks read.
C34_BoundedStartup ==
    /\ [](machine.call = "tick" /\ machine.fsm.current \in Transient =>
            /\ machine.inp.state_t < timeout_s(machine.fsm, machine.fsm.current)
            /\ machine.age < SumTimeouts)
    /\ [][machine.fsm.current \in Transient /\ machine'.fsm.current \notin Transient
            => machine'.age < SumTimeouts + MaxDt]_vars
    /\ <>(machine.fsm.current \in {"Running", "Fault"})

C34_Witness ==
    /\ machine.call = "tick" /\ machine.fsm.current = "Fault"
    /\ machine.fsm.last_state = "FuelRamp"
    /\ machine.inp.state_t >= fuelramp_timeout_s
    /\ machine.age >= SumTimeouts - 2

\* C35: after every command handler and every tick, a worker that holds a
\* cyclogram has no ramp playback under way.
C35_CyclogramOrPlayback == self.fsm # NoFsm => ~self.pump_prof_active

\* The second command of a session, a cooldown command, installed a machine
\* over the playback the first command started (no tick ran in between).
C35_Witness ==
    /\ self.slot = "cmd_cooling_cycle" /\ ncmd = 2 /\ ~self.timer_active
    /\ self.fsm # NoFsm /\ Len(self.pump_prof.t) > 0 /\ ~self.pump_prof_active

\* Duty arguments below, inside, at the ends of and above the range.
DutyArgs == {0 - 2000, 0, 3000, DutyOne, 12000}

DutyRange == 0..DutyOne

DutySent(cmd) == cmd.op = "set_duty" => cmd.value \in DutyRange

\* C36: every duty written to an actuator link lies in [0, 1]: the duty
\* commands the last handler wrote, the duty derived from any duty target,
\* and the duty written by the tick that follows a manual duty command or a
\* cooldown command with an argument outside the range; a manual duty
\* command stores a value in [0, 1] in the command target.
C36_DutyInRange ==
    /\ DutySent(self.sent.pump) /\ DutySent(self.sent.starter)
    /\ \A duty \in DutyArgs :
          /\ cmd_set_pump_duty(self, duty).pump_target.value \in DutyRange
          /\ cmd_set_starter_duty(self, duty).starter_target.value \in DutyRange
          /\ vesc_command([mode |-> "duty", value |-> duty]).value \in DutyRange
    /\ self.timer_active =>
          \A duty \in DutyArgs \ DutyRange :
             \A w \in {cmd_set_pump_duty(self, duty), cmd_set_starter_duty(self, duty),
                        cmd_cooling_cycle(self, duty)} :
                \A F \in FaultSets(w), rd \in Reads(w) :
                   LET sent == _tick(w, F, rd).sent
                   IN  DutySent(sent.pump) /\ DutySent(sent.starter)

\* A tick wrote the starter the full duty a larger argument was cut to.
C36_Witness ==
    /\ self.slot = "_tick"
    /\ self.sent.starter = [op |-> "set_duty", value |-> DutyOne]

\* The zero command of each device, and whether shutdown wrote it to a link
\* that was open when shutdown began.
ZeroSent(w0, w, dev) ==
    CASE dev = "pump" -> w0.pump_conn => w.sent.pump = [op |-> "set_rpm_mech", value |-> 0]
      [] dev = "starter" -> w0.starter_conn => w.sent.starter = [op |-> "set_duty", value |-> 0]
      [] dev = "psu" ->
           w0.psu_conn => w.sent.psu = << [op |-> "output", v |-> 0, i |-> 0, out |-> FALSE] >>

\* C37: stop() writes every connected device its zero command (pump RPM 0,
\* starter duty 0, PSU output off) and then releases the links, also when
\* the zero command of another device raises.
C37_ShutdownZeroesAll ==
    Alive =>
       \A fail \in StopFails :
          LET w == worker_stop(self, fail)
          IN  /\ \A dev \in {"pump", "starter", "psu"} \ {fail} : ZeroSent(self, w, dev)
              /\ ~w.pump_conn /\ ~w.starter_conn /\ ~w.psu_conn

\* The worker after a ready command (with either outcome of the logger and
\* of the profile warm-up) or after a reset command.
ReadyOrReset(w) ==
    {cmd_ready(w, ok, loaded) : ok \in BOOLEAN, loaded \in BOOLEAN}
       \cup {cmd_update_reset(w)}

SameTargets(w0, w) ==
    /\ w.pump_target = w0.pump_target /\ w.starter_target = w0.starter_target
    /\ w.psu_target = w0.psu_target

\* C38: ready and updateReset leave the worker without a cyclogram, without
\* playback and with session time zero, and with the pump, starter and PSU
\* targets they found; the next tick keeps these targets and writes the
\* pump and starter targets to the links that stay open.
C38_ReadyKeepsTargets ==
    Alive =>
       \A w \in ReadyOrReset(self) :
          /\ w.fsm = NoFsm /\ ~w.pump_prof_active /\ Now - w.t0 = 0
          /\ SameTargets(self, w)
          /\ w.timer_active =>
                \A F \in FaultSets(w), rd \in Reads(w) :
                   LET n == _tick(w, F, rd)
                   IN  /\ SameTargets(self, n)
                       /\ n.pump_conn => n.sent.pump = vesc_command(self.pump_target)
                       /\ n.starter_conn =>
                             n.sent.starter = vesc_command(self.starter_target)

\* With the starter connected, a ready command cancelled the cooldown
\* machine whose tick had set the starter target.
C38_Witness ==
    /\ self.slot = "cmd_ready" /\ ncmd = 3 /\ self.fsm = NoFsm
    /\ self.fsm_prev_state = "Cooling" /\ self.starter_target.value > 0
    /\ self.starter_conn /\ self.t0 = Now

\* The PSU target as _psu_applied records it.
AppliedOf(t) == [v |-> t.v, i |-> t.i, out |-> Bit(t.out)]

PsuCmdError(w) == \E k \in 1..Len(w.error) : w.error[k] = "PSU cmd error"

\* C39: at the end of every tick that leaves the PSU connected and whose
\* PSU apply step raised nothing, the applied setpoints and output flag are
\* those of the PSU target.
C39_PsuAppliedIsTarget ==
    (self.slot = "_tick" /\ self.psu_conn /\ ~PsuCmdError(self)) =>
       self.psu_applied = AppliedOf(self.psu_target)

\* The last value of the pump profile, as a pump target.
FinalTarget(profile) == [mode |-> "rpm", value |-> profile.rpm[Len(profile.rpm)]]

\* The tick that ran last took the machine from FuelRamp to Running.
EnteredRunning(m) ==
    /\ m.call = "tick" /\ m.switched
    /\ m.fsm.current = "Running" /\ m.fsm.last_state = "FuelRamp"

\* The worker's pump target when its tick has brought the machine to f,
\* from the pump target pt before that tick.
PumpTargetAfter(pt, f) == reconcile([Holder EXCEPT !.pump_target = pt], f).pump_target

\* C40: the tick that enters Running has a FuelRamp state_t at or past the
\* end of the pump profile and a starter RPM that has stayed at or above
\* the finish threshold for the finish hold duration; with a positive
\* finish hold duration, the worker's pump target on that tick is the
\* profile's last value, and the ticks in Running leave it there.
C40_RampHandoff ==
    /\ EnteredRunning(machine) =>
          /\ machine.inp.state_t >= end_time(machine.fsm.profile)
          /\ machine.span # NoTime /\ machine.span >= fuelramp_finish_hold_s
    /\ (fuelramp_finish_hold_s > 0 /\ machine.call = "tick"
          /\ machine.fsm.current \in {"FuelRamp", "Running"}) =>
          \A pt \in {FinalTarget(p) : p \in RunProfiles} \cup {Holder.pump_target},
             d \in 1..MaxDt, rpm \in BenchRpm :
             LET before == PumpTargetAfter(pt, machine.fsm)
                 n == bench_tick(bench_elapse(machine, d), rpm)
             IN  n.fsm.current = "Running" =>
                    /\ PumpTargetAfter(before, n.fsm) = before
                    /\ machine.fsm.current = "FuelRamp" =>
                          before = FinalTarget(machine.fsm.profile)

\* Running was entered on the first tick at which the hold had lasted, with
\* the two-point profile played to its end.
C40_Witness ==
    /\ EnteredRunning(machine)
    /\ machine.span = fuelramp_finish_hold_s
    /\ Len(machine.fsm.profile.t) = 2
    /\ machine.fsm.targets.pump = FinalTarget(machine.fsm.profile)
====
